---- MODULE Spec2Model ----
(***************************************************************************)
(* Verification model of the papers-to-epub quality scoring and citation   *)
(* resolution code.                                                        *)
(*                                                                         *)
(*   - StructuralReviewer (review_structure.py): text report, JSON report  *)
(*   - LaTeXMLConverter._assess_quality / _print_results (latex_to_xml.py) *)
(*   - citation key assignment and citation rewriting                      *)
(*                                                                         *)
(* Scores are kept exact: the reviewer's component scores are counted in   *)
(* tenths, its completion percentage is carried multiplied by 6, and the   *)
(* converter's ratios are carried multiplied by Scale.                     *)
(***************************************************************************)
EXTENDS Integers, Sequences, FiniteSets, TLC

VARIABLES tool, doc, lx, order, issues, calls, run, report, json, prev,
          quality_score, rating, bib, cites, out, latex_content,
          label_mapping, proc

\* The state of the citation code: the bibliography and the citations it is
\* given, and what the operation that ran made of them.
citeVars == <<bib, cites, out>>

\* The state of the scorers.
scoreVars == <<doc, lx, order, issues, calls, run, report, json, prev,
               quality_score, rating>>

\* The LaTeX source the extractors read, and the numbers of the labels the
\* reference fixers know.
parseVars == <<latex_content, label_mapping>>

\* The state of a conversion run that calls outside programs and services.
runVars == <<proc>>

vars == <<tool, scoreVars, citeVars, parseVars, runVars>>

(***************************************************************************)
(* Bounds of the model.                                                    *)
(***************************************************************************)
MaxCount == 2
MaxCalls == 2
MaxRuns == 2

(***************************************************************************)
(* Small helpers.                                                          *)
(***************************************************************************)
Min(a, b) == IF a < b THEN a ELSE b
Max(a, b) == IF a > b THEN a ELSE b
Abs(a) == IF a < 0 THEN -a ELSE a
SeqsUpTo(S, n) == UNION {[1..k -> S] : k \in 0..n}
Range(s) == {s[i] : i \in 1..Len(s)}
Take(s, n) == SubSeq(s, 1, Min(n, Len(s)))
Perms(S) == {p \in [1..Cardinality(S) -> S] : Range(p) = S}

(***************************************************************************)
(* Inputs of the reviewer: what load_files and the regular expressions of  *)
(* analyze_all read from the LaTeX source and the XML target.              *)
(***************************************************************************)
Titles == {"Intro", "Method", "Results"}
NoTitle == ""
TitleTexts == {"", "T", "U"}
AbstractLens == {0, 20, 21, 40}
FigureStates == {"ok", "noref", "nofile"}
Counts == 0..MaxCount

DocFields == {"latex_title", "xml_title", "latex_authors", "xml_authors",
              "latex_abstract_len", "xml_abstract_len",
              "latex_sections", "latex_subsections", "xml_sections",
              "latex_equations", "xml_equations", "equation_placeholders",
              "latex_inline_math",
              "latex_citations", "xml_citations", "unconverted_citations",
              "latex_references", "xml_references",
              "latex_tables", "xml_tables", "latex_figures", "xml_figures"}

DocDom(f) ==
    CASE f = "latex_title" -> {"", "T"}
      [] f = "xml_title" -> TitleTexts
      [] f \in {"latex_abstract_len", "xml_abstract_len"} -> AbstractLens
      [] f \in {"latex_sections", "latex_subsections"} -> SeqsUpTo(Titles, MaxCount)
      [] f = "xml_sections" -> SeqsUpTo(Titles \cup {NoTitle}, MaxCount)
      [] f = "xml_figures" -> SeqsUpTo(FigureStates, MaxCount)
      [] OTHER -> Counts

\* A source with nothing in it scored against a target with nothing in it.
EmptyDoc ==
    [latex_title |-> "", xml_title |-> "", latex_authors |-> 0, xml_authors |-> 0,
     latex_abstract_len |-> 0, xml_abstract_len |-> 0,
     latex_sections |-> <<>>, latex_subsections |-> <<>>, xml_sections |-> <<>>,
     latex_equations |-> 0, xml_equations |-> 0, equation_placeholders |-> 0,
     latex_inline_math |-> 0,
     latex_citations |-> 0, xml_citations |-> 0, unconverted_citations |-> 0,
     latex_references |-> 0, xml_references |-> 0,
     latex_tables |-> 0, xml_tables |-> 0, latex_figures |-> 0, xml_figures |-> <<>>]

\* One of everything, the target equal to the source.
FullDoc ==
    [latex_title |-> "T", xml_title |-> "T", latex_authors |-> 1, xml_authors |-> 1,
     latex_abstract_len |-> 20, xml_abstract_len |-> 20,
     latex_sections |-> <<"Intro">>, latex_subsections |-> <<>>,
     xml_sections |-> <<"Intro">>,
     latex_equations |-> 1, xml_equations |-> 1, equation_placeholders |-> 0,
     latex_inline_math |-> 0,
     latex_citations |-> 1, xml_citations |-> 1, unconverted_citations |-> 0,
     latex_references |-> 1, xml_references |-> 1,
     latex_tables |-> 1, xml_tables |-> 1, latex_figures |-> 1, xml_figures |-> <<"ok">>]

\* The full source against a target that lost everything.
LostDoc ==
    [FullDoc EXCEPT !.xml_title = "", !.xml_authors = 0, !.xml_abstract_len = 0,
                    !.xml_sections = <<>>, !.xml_equations = 0, !.xml_citations = 0,
                    !.xml_references = 0, !.xml_tables = 0, !.xml_figures = <<>>]

\* The full source against a target that kept placeholders and raw commands.
DegradedDoc ==
    [FullDoc EXCEPT !.xml_title = "U", !.latex_authors = 2,
                    !.xml_abstract_len = 40,
                    !.latex_sections = <<"Intro", "Method">>,
                    !.xml_sections = <<NoTitle>>,
                    !.xml_equations = 0, !.equation_placeholders = 1,
                    !.latex_inline_math = 1,
                    !.xml_citations = 0, !.unconverted_citations = 1,
                    !.xml_figures = <<"nofile">>]

\* 3 sections, 1 equation, 0 tables, 2 bibliography entries against
\* 3 sections, 0 equations, 0 tables, 2 bibliography entries; metadata equal.
ScenarioDoc ==
    [EmptyDoc EXCEPT !.latex_title = "T", !.xml_title = "T",
                     !.latex_authors = 1, !.xml_authors = 1,
                     !.latex_abstract_len = 20, !.xml_abstract_len = 20,
                     !.latex_sections = <<"Intro", "Method", "Results">>,
                     !.xml_sections = <<"Intro", "Method", "Results">>,
                     !.latex_equations = 1, !.xml_equations = 0,
                     !.latex_references = 2, !.xml_references = 2]

DocBaselines == {EmptyDoc, FullDoc, LostDoc, DegradedDoc, ScenarioDoc}

\* Every baseline, and every baseline with one field set to any value of
\* the field's domain.
Docs == DocBaselines \cup
        UNION {{[d EXCEPT ![f] = v] : d \in DocBaselines, v \in DocDom(f)} :
                  f \in DocFields}

(***************************************************************************)
(* StructuralReviewer.analyze_all, facet by facet.  Every facet yields its *)
(* score in tenths and the issues it appends to self.issues, per severity, *)
(* in the order of the append calls.                                       *)
(***************************************************************************)
Issue(sev, facet, kind, n1, n2, title) ==
    [sev |-> sev, facet |-> facet, kind |-> kind, n1 |-> n1, n2 |-> n2,
     title |-> title]

NoIssues == [Critical |-> <<>>, Major |-> <<>>, Minor |-> <<>>]

Facet(score, crit, major, minor) ==
    [score |-> score, Critical |-> crit, Major |-> major, Minor |-> minor]

\* list(missing_titles): the iteration order of a set of strings follows the
\* process's string hashing, here the order the process drew at start.
ListOfSet(S, ord) == SelectSeq(ord, LAMBDA t : t \in S)

MissingShown == 5
MajorShown == 10
MinorShown == 5

TitleCheck(d) ==
    IF d.xml_title # "" /\ d.xml_title = d.latex_title
    THEN Facet(10, <<>>, <<>>, <<>>)
    ELSE IF d.xml_title # ""
    THEN Facet(5, <<>>, <<>>,
               <<Issue("Minor", "metadata", "Title formatting differences", 0, 0, "")>>)
    ELSE Facet(0, <<Issue("Critical", "metadata", "Title missing in XML", 0, 0, "")>>,
               <<>>, <<>>)

AuthorCheck(d) ==
    IF d.xml_authors >= d.latex_authors /\ d.latex_authors > 0
    THEN Facet(10, <<>>, <<>>, <<>>)
    ELSE IF d.xml_authors > 0
    THEN Facet(8, <<>>,
               IF d.xml_authors < d.latex_authors
               THEN <<Issue("Major", "metadata", "Author count mismatch",
                            d.latex_authors, d.xml_authors, "")>>
               ELSE <<>>,
               <<>>)
    ELSE Facet(0, <<Issue("Critical", "metadata", "Authors missing in XML", 0, 0, "")>>,
               <<>>, <<>>)

AbstractDenominator_Unguarded(l) == l

\* The denominator of the abstract comparison: max(latex_abstract_len, 1).
AbstractDenominator(l) == Max(l, 1)

\* abs(xml - latex) / max(latex, 1) < 0.1, without the division.
AbstractClose(x, l) == Abs(x - l) * 10 < AbstractDenominator(l)

\* analyze_all raises instead of reporting when the division of the
\* abstract comparison has a zero denominator (ZeroDivisionError); none of
\* its other operations can raise on a parsed pair: the titles it strips
\* are strings whenever they are stripped, and every count is a len().
Raises(d) ==
    d.xml_abstract_len > 0 /\ AbstractDenominator(d.latex_abstract_len) = 0

AbstractCheck(d) ==
    IF d.xml_abstract_len > 0
    THEN IF AbstractClose(d.xml_abstract_len, d.latex_abstract_len)
         THEN Facet(10, <<>>, <<>>, <<>>)
         ELSE Facet(7, <<>>, <<>>,
                    <<Issue("Minor", "metadata", "Abstract length differs significantly",
                            0, 0, "")>>)
    ELSE Facet(0, <<Issue("Critical", "metadata", "Abstract missing in XML", 0, 0, "")>>,
               <<>>, <<>>)

Join(a, b) ==
    Facet(a.score + b.score, a.Critical \o b.Critical, a.Major \o b.Major,
          a.Minor \o b.Minor)

MetadataCheck(d) == Join(Join(TitleCheck(d), AuthorCheck(d)), AbstractCheck(d))

xml_section_titles(d) == SelectSeq(d.xml_sections, LAMBDA t : t # NoTitle)

SectionCountCheck(d) ==
    LET nl == Len(d.latex_sections) + Len(d.latex_subsections)
        nx == Len(d.xml_sections)
    IN  IF nx = nl
        THEN Facet(10, <<>>, <<>>, <<>>)
        ELSE IF nx > 0
        THEN Facet(5, <<>>,
                   <<Issue("Major", "structure", "Section count mismatch", nl, nx, "")>>,
                   <<>>)
        ELSE Facet(0, <<Issue("Critical", "structure", "No sections found in XML",
                              0, 0, "")>>,
                   <<>>, <<>>)

missing_titles(d) ==
    Range(d.latex_sections \o d.latex_subsections) \ Range(xml_section_titles(d))

MissingTitleCheck(d, ord) ==
    LET listed == ListOfSet(missing_titles(d), ord)
        shown == Take(listed, MissingShown)
        named == [i \in 1..Len(shown) |->
                     Issue("Major", "structure", "Missing section", 0, 0, shown[i])]
        more == IF Len(listed) > MissingShown
                THEN <<Issue("Major", "structure", "more missing sections",
                             Len(listed) - MissingShown, 0, "")>>
                ELSE <<>>
    IN  Facet(0, <<>>, named \o more, <<>>)

StructureCheck(d, ord) == Join(SectionCountCheck(d), MissingTitleCheck(d, ord))

EquationCheck(d) ==
    IF d.latex_equations > 0
    THEN IF d.xml_equations = d.latex_equations
         THEN Facet(10, <<>>, <<>>, <<>>)
         ELSE IF d.equation_placeholders = d.latex_equations
         THEN Facet(3, <<>>,
                    <<Issue("Major", "mathematics", "Equations converted to placeholders",
                            d.equation_placeholders, 0, "")>>,
                    <<>>)
         ELSE Facet(0, <<Issue("Critical", "mathematics", "Equation conversion failed",
                               d.latex_equations, d.xml_equations, "")>>,
                    <<>>, <<>>)
    ELSE Facet(10, <<>>, <<>>, <<>>)

InlineMathCheck(d) ==
    IF d.latex_inline_math > 0
    THEN IF d.equation_placeholders > d.latex_equations
         THEN Facet(3, <<>>,
                    <<Issue("Major", "mathematics",
                            "Inline math may be converted to placeholders", 0, 0, "")>>,
                    <<>>)
         ELSE Facet(0, <<>>,
                    <<Issue("Major", "mathematics", "Inline math conversion unclear",
                            d.latex_inline_math, 0, "")>>,
                    <<>>)
    ELSE Facet(0, <<>>, <<>>, <<>>)

MathCheck(d) == Join(EquationCheck(d), InlineMathCheck(d))

BibliographyCheck(d) ==
    IF d.latex_references > 0
    THEN IF d.xml_references = d.latex_references
         THEN Facet(5, <<>>, <<>>, <<>>)
         ELSE Facet(0, <<Issue("Critical", "references", "Bibliography missing",
                               d.latex_references, d.xml_references, "")>>,
                    <<>>, <<>>)
    ELSE Facet(5, <<>>, <<>>, <<>>)

CitationCheck(d) ==
    IF d.latex_citations > 0
    THEN IF d.xml_citations = d.latex_citations
         THEN Facet(5, <<>>, <<>>, <<>>)
         ELSE IF d.unconverted_citations > 0
         THEN Facet(0, <<>>,
                    <<Issue("Major", "references", "Citations not converted",
                            d.unconverted_citations, 0, "")>>,
                    <<>>)
         ELSE Facet(0, <<Issue("Critical", "references", "All citations missing",
                               d.latex_citations, 0, "")>>,
                    <<>>, <<>>)
    ELSE Facet(5, <<>>, <<>>, <<>>)

ReferenceCheck(d) == Join(BibliographyCheck(d), CitationCheck(d))

\* TableCheck filing the missing tables under Major.
TableCheck_Major(d) ==
    IF d.latex_tables > 0
    THEN IF d.xml_tables = d.latex_tables
         THEN Facet(5, <<>>, <<>>, <<>>)
         ELSE Facet(0, <<>>,
                    <<Issue("Major", "tables_figures", "Tables missing",
                            d.latex_tables, d.xml_tables, "")>>,
                    <<>>)
    ELSE Facet(5, <<>>, <<>>, <<>>)

TableCheck(d) ==
    IF d.latex_tables > 0
    THEN IF d.xml_tables = d.latex_tables
         THEN Facet(5, <<>>, <<>>, <<>>)
         ELSE Facet(0, <<Issue("Critical", "tables_figures", "Tables missing",
                               d.latex_tables, d.xml_tables, "")>>,
                    <<>>, <<>>)
    ELSE Facet(5, <<>>, <<>>, <<>>)

FigureCheck(d) ==
    IF d.latex_figures > 0
    THEN IF Len(d.xml_figures) = d.latex_figures
         THEN Facet(5, <<>>, <<>>, <<>>)
         ELSE Facet(0, <<Issue("Critical", "tables_figures", "Figures missing",
                               d.latex_figures, Len(d.xml_figures), "")>>,
                    <<>>, <<>>)
    ELSE Facet(5, <<>>, <<>>, <<>>)

\* _check_figure_images: one Major issue per figure without a source
\* reference or without its image file, in document order.
RECURSIVE FigureImageIssues(_, _)
FigureImageIssues(figs, i) ==
    IF i > Len(figs) THEN <<>>
    ELSE (IF figs[i] = "noref"
          THEN <<Issue("Major", "tables_figures", "Figure missing source_reference",
                       i, 0, "")>>
          ELSE IF figs[i] = "nofile"
          THEN <<Issue("Major", "tables_figures", "Figure image file not found",
                       i, 0, "")>>
          ELSE <<>>) \o FigureImageIssues(figs, i + 1)

check_figure_images(d) == Facet(0, <<>>, FigureImageIssues(d.xml_figures, 1), <<>>)

TablesFiguresCheck(d) ==
    Join(Join(TableCheck(d), FigureCheck(d)), check_figure_images(d))

(***************************************************************************)
(* The summary of analyze_all.                                             *)
(***************************************************************************)
MaxScore == 6
ExcellentMin == 85
GoodMin == 70
ModerateMin == 50

\* completion = (total_score / max_score) * 100, total_score in tenths.
CompletionAtLeast(total, pct) == total * 100 >= pct * MaxScore * 10
CompletionAtMost(total, pct) == total * 100 <= pct * MaxScore * 10
CompletionIs(total, pct) == total * 100 = pct * MaxScore * 10

\* QualityLevel with the GOOD threshold moved to 75.
QualityLevel_GoodAt75(total) ==
    IF CompletionAtLeast(total, ExcellentMin) THEN "EXCELLENT"
    ELSE IF CompletionAtLeast(total, 75) THEN "GOOD"
    ELSE IF CompletionAtLeast(total, ModerateMin) THEN "MODERATE"
    ELSE "POOR"

QualityLevel(total) ==
    IF CompletionAtLeast(total, ExcellentMin) THEN "EXCELLENT"
    ELSE IF CompletionAtLeast(total, GoodMin) THEN "GOOD"
    ELSE IF CompletionAtLeast(total, ModerateMin) THEN "MODERATE"
    ELSE "POOR"

NoReport == [done |-> FALSE]

\* What one call of analyze_all appends to self.issues, facet after facet.
Analysis(d, ord) ==
    [metadata |-> MetadataCheck(d), structure |-> StructureCheck(d, ord),
     mathematics |-> MathCheck(d), references |-> ReferenceCheck(d),
     tables_figures |-> TablesFiguresCheck(d)]

Appended(iss, a, sev) ==
    iss[sev] \o a.metadata[sev] \o a.structure[sev] \o a.mathematics[sev]
             \o a.references[sev] \o a.tables_figures[sev]

IssuesAfter(iss, a) ==
    [Critical |-> Appended(iss, a, "Critical"), Major |-> Appended(iss, a, "Major"),
     Minor |-> Appended(iss, a, "Minor")]

TextReport(a, iss, n) ==
    LET total == a.metadata.score + a.structure.score + a.mathematics.score
                 + a.references.score + a.tables_figures.score
    IN  [done |-> TRUE,
         call |-> n,
         total_score |-> total,
         metadata_score |-> a.metadata.score,
         structure_score |-> a.structure.score,
         math_score |-> a.mathematics.score,
         ref_score |-> a.references.score,
         table_fig_score |-> a.tables_figures.score,
         critical_count |-> Len(iss.Critical),
         major_count |-> Len(iss.Major),
         minor_count |-> Len(iss.Minor),
         quality |-> QualityLevel(total),
         issues |-> iss.Critical \o Take(iss.Major, MajorShown)
                    \o Take(iss.Minor, MinorShown)]

AnalyzeAll ==
    /\ tool = "review"
    /\ calls < MaxCalls
    /\ LET a == Analysis(doc, order)
           after == IssuesAfter(issues, a)
       IN  IF Raises(doc)
           THEN /\ issues' = issues
                /\ report' = NoReport
           ELSE /\ issues' = after
                /\ report' = TextReport(a, after, calls + 1)
    /\ calls' = calls + 1
    /\ UNCHANGED <<tool, doc, lx, order, run, json, prev, quality_score, rating, citeVars, parseVars, runVars>>

(***************************************************************************)
(* The --json path of __main__: analyze_all_data, then output_json.        *)
(***************************************************************************)
analyze_all_data(d) ==
    [title_xml |-> d.xml_title,
     sections_xml |-> Len(d.xml_sections),
     equations_latex |-> d.latex_equations,
     citations_latex |-> d.latex_citations,
     tables_latex |-> d.latex_tables,
     figures_latex |-> d.latex_figures]

NoJson == [done |-> FALSE]

output_json(data, iss) ==
    LET metadata_score == IF data.title_xml # "" THEN 25 ELSE 0
        structure_score == IF data.sections_xml > 0 THEN 5 ELSE 0
        math_score == IF data.equations_latex = 0 THEN 10 ELSE 3
        ref_score == IF data.citations_latex > 0 THEN 0 ELSE 5
        table_fig_score == IF data.tables_latex > 0 \/ data.figures_latex > 0
                           THEN 0 ELSE 10
        total == metadata_score + structure_score + math_score + ref_score
                 + table_fig_score
    IN  [done |-> TRUE,
         total_score |-> total,
         quality |-> QualityLevel(total),
         issues |-> iss.Critical \o iss.Major \o iss.Minor,
         critical_count |-> Len(iss.Critical),
         major_count |-> Len(iss.Major),
         minor_count |-> Len(iss.Minor),
         metadata_score |-> metadata_score,
         structure_score |-> structure_score,
         math_score |-> math_score,
         ref_score |-> ref_score,
         table_fig_score |-> table_fig_score]

JsonReport ==
    /\ tool = "review"
    /\ json' = output_json(analyze_all_data(doc), issues)
    /\ json' # json
    /\ UNCHANGED <<tool, doc, lx, order, issues, calls, run, report, prev,
                   quality_score, rating, citeVars, parseVars, runVars>>

\* The program is started again on the same two files: a new reviewer object
\* (StructuralReviewer.__init__) in a process with its own string hashing.
NewReviewer ==
    /\ tool = "review"
    /\ run < MaxRuns
    /\ report.done
    /\ run' = run + 1
    /\ order' \in Perms(missing_titles(doc))
    /\ issues' = NoIssues
    /\ calls' = 0
    /\ prev' = report
    /\ report' = NoReport
    /\ json' = NoJson
    /\ UNCHANGED <<tool, doc, lx, quality_score, rating, citeVars, parseVars, runVars>>

(***************************************************************************)
(* LaTeXMLConverter._assess_quality and _print_results (latex_to_xml.py).  *)
(* Its inputs are the counts it takes from the LaTeX file and from the     *)
(* LaTeXML output; readable = FALSE stands for a file that cannot be read  *)
(* or parsed (the except branch).                                          *)
(***************************************************************************)
LxFields == {"latex_title", "latex_authors", "latex_abstract", "latex_sections",
             "latex_figures", "latex_tables", "latex_bibitems",
             "xml_title", "xml_authors", "xml_abstract", "xml_sections",
             "xml_figures", "xml_tables", "xml_bibitems", "readable"}

LxDom(f) ==
    IF f \in {"latex_title", "latex_abstract", "xml_title", "xml_abstract", "readable"}
    THEN BOOLEAN ELSE Counts

LxEmpty ==
    [latex_title |-> FALSE, latex_authors |-> 0, latex_abstract |-> FALSE,
     latex_sections |-> 0, latex_figures |-> 0, latex_tables |-> 0,
     latex_bibitems |-> 0,
     xml_title |-> FALSE, xml_authors |-> 0, xml_abstract |-> FALSE,
     xml_sections |-> 0, xml_figures |-> 0, xml_tables |-> 0, xml_bibitems |-> 0,
     readable |-> TRUE]

LxFull ==
    [latex_title |-> TRUE, latex_authors |-> 1, latex_abstract |-> TRUE,
     latex_sections |-> 1, latex_figures |-> 1, latex_tables |-> 1,
     latex_bibitems |-> 1,
     xml_title |-> TRUE, xml_authors |-> 1, xml_abstract |-> TRUE,
     xml_sections |-> 1, xml_figures |-> 1, xml_tables |-> 1, xml_bibitems |-> 1,
     readable |-> TRUE]

LxLost ==
    [LxFull EXCEPT !.xml_title = FALSE, !.xml_authors = 0, !.xml_abstract = FALSE,
                   !.xml_sections = 0, !.xml_figures = 0, !.xml_tables = 0,
                   !.xml_bibitems = 0]

\* 3 sections, 0 tables, 2 bibliography entries on both sides, metadata present.
LxScenario ==
    [LxFull EXCEPT !.latex_sections = 3, !.xml_sections = 3,
                   !.latex_tables = 0, !.xml_tables = 0,
                   !.latex_figures = 0, !.xml_figures = 0,
                   !.latex_bibitems = 2, !.xml_bibitems = 2]

LxBaselines == {LxEmpty, LxFull, LxLost, LxScenario}

Lxs == LxBaselines \cup
       UNION {{[d EXCEPT ![f] = v] : d \in LxBaselines, v \in LxDom(f)} :
                 f \in LxFields}

RECURSIVE Factorial(_)
Factorial(n) == IF n <= 1 THEN 1 ELSE n * Factorial(n - 1)

\* Every ratio is carried multiplied by Scale, which every source count of the
\* model divides.
Scale == Factorial(Max(MaxCount, 3))

\* min(xml_count / max(latex_count, 1), 1.0)
safe_ratio(xml_count, latex_count) ==
    Min((xml_count * Scale) \div Max(latex_count, 1), Scale)

\* round(x, 1) of x = num / den, in tenths: the nearest integer to 10 * x.
RoundTenths(num, den) == (2 * num * 10 + den) \div (2 * den)

MathScoreTenths == 9

\* The component scores, each multiplied by 10 * Scale.
LxComponents(m) ==
    [metadata |-> (IF m.xml_title /\ m.latex_title THEN 4 * Scale ELSE 0)
                  + 4 * safe_ratio(m.xml_authors, m.latex_authors)
                  + (IF m.xml_abstract /\ m.latex_abstract THEN 2 * Scale ELSE 0),
     structure |-> 10 * safe_ratio(m.xml_sections, m.latex_sections),
     mathematics |-> MathScoreTenths * Scale,
     references |-> 10 * safe_ratio(m.xml_bibitems, m.latex_bibitems),
     tables_figures |-> 6 * safe_ratio(m.xml_tables, m.latex_tables)
                        + 4 * safe_ratio(m.xml_figures, m.latex_figures)]

\* The weights in percent.
Weights == [metadata |-> 25, structure |-> 20, mathematics |-> 15,
            references |-> 20, tables_figures |-> 20]

\* overall_score in tenths of a percent, after round(overall_score, 1).
assess_quality(m) ==
    IF ~m.readable THEN 0
    ELSE LET c == LxComponents(m)
             num == Weights.metadata * c.metadata + Weights.structure * c.structure
                    + Weights.mathematics * c.mathematics
                    + Weights.references * c.references
                    + Weights.tables_figures * c.tables_figures
         IN  RoundTenths(num, 10 * Scale)

NoScore == -1

AssessQuality ==
    /\ tool = "convert"
    /\ quality_score = NoScore
    /\ quality_score' = assess_quality(lx)
    /\ UNCHANGED <<tool, doc, lx, order, issues, calls, run, report, json, prev, rating,
                   citeVars, parseVars, runVars>>

RatingExcellent == 90
RatingGood == 80
RatingFair == 70

print_rating(score) ==
    IF score >= RatingExcellent * 10 THEN "EXCELLENT"
    ELSE IF score >= RatingGood * 10 THEN "GOOD"
    ELSE IF score >= RatingFair * 10 THEN "FAIR"
    ELSE "POOR"

PrintResults ==
    /\ tool = "convert"
    /\ quality_score # NoScore
    /\ rating = ""
    /\ rating' = print_rating(quality_score)
    /\ UNCHANGED <<tool, doc, lx, order, issues, calls, run, report, json, prev,
                   quality_score, citeVars, parseVars, runVars>>

\* No conversion run.
NoProc == [pc |-> "none"]

NoOut == [done |-> FALSE]

(***************************************************************************)
(* Citation keys and citation rewriting.                                   *)
(*                                                                         *)
(* A string is a sequence of atoms, so that concatenation is \o and two    *)
(* strings are equal when their characters are ("Smith" + "b" = "Smithb"). *)
(* The text of a bibblock is a sequence of tokens [k, s]: an initial       *)
(* ("J."), a capitalised word, a comma, the word "and", a year, or other   *)
(* lower-case text.                                                        *)
(***************************************************************************)
MaxBib == 3
MaxKeys == 3

Tok(k, s) == [k |-> k, s |-> s]
Initial == Tok("init", <<"J.">>)
Comma == Tok("comma", <<",">>)
And == Tok("and", <<"and">>)
Word == Tok("low", <<"title">>)
Cap(s) == Tok("cap", s)
Year(y) == Tok("year", <<y>>)

Smith == <<"Smith">>
Smithb == <<"Smith", "b">>

\* "J. Smith, title 2020", "Smith, J. title 2020", "J. Smith and J. Lee
\* title", "title Smithb title", and a bibblock without text.
TextInitialSurname == <<Initial, Cap(Smith), Comma, Word, Year("2020")>>
TextSurnameInitial == <<Cap(Smith), Comma, Initial, Word, Year("2020")>>
TextAndNoYear == <<Initial, Cap(Smith), And, Initial, Cap(<<"Lee">>), Word>>
TextFallback == <<Word, Cap(Smithb), Word>>
TextEmpty == <<>>

BibTexts == {TextInitialSurname, TextSurnameInitial, TextAndNoYear, TextFallback,
             TextEmpty}

KeyNames == <<"a", "b", "c", "d", "e", "f">>
NoKey == <<>>
SmithKey == <<"Smith", "2020">>

\* The bibitems the model feeds in: the i-th has its own key, no key, or the
\* key "Smith2020", and any of the texts.
BibKeys(i) == {<<KeyNames[i]>>, NoKey, SmithKey}
Bibs == UNION {{b \in [1..n -> [key : UNION {BibKeys(i) : i \in 1..n},
                                text : BibTexts]] :
                   \A i \in 1..n : b[i].key \in BibKeys(i)} : n \in 0..MaxBib}

\* re.search(r'\b(19|20)\d{2}\b', text): the first year of the text, or "".
RECURSIVE FirstOfKind(_, _, _)
FirstOfKind(text, k, i) ==
    IF i > Len(text) THEN <<>>
    ELSE IF text[i].k = k THEN text[i].s
    ELSE FirstOfKind(text, k, i + 1)

\* Patterns 1 to 3 of _extract_author_year_regex, tried in this order at the
\* start of the text; <<>> stands for None.
PatternAuthor(text) ==
    IF Len(text) >= 3 /\ text[1].k = "init" /\ text[2].k = "cap" /\ text[3].k = "comma"
    THEN text[2].s
    ELSE IF Len(text) >= 2 /\ text[1].k = "cap" /\ text[2].k = "comma"
    THEN text[1].s
    ELSE IF Len(text) >= 3 /\ text[1].k = "init" /\ text[2].k = "cap"
            /\ text[3].k = "and"
    THEN text[2].s
    ELSE <<>>

extract_author_year_regex(text) ==
    LET year == FirstOfKind(text, "year", 1)
        author == PatternAuthor(text)
        fallback_match == FirstOfKind(text, "cap", 1)
        fallback_author == IF fallback_match # <<>> THEN fallback_match
                           ELSE <<"Unknown">>
    IN  IF author # <<>> /\ year # <<>> THEN author \o year
        ELSE fallback_author \o year

Letters == <<"a", "b", "c", "d", "e", "f", "g", "h", "i", "j", "k", "l", "m",
             "n", "o", "p", "q", "r", "s", "t", "u", "v", "w", "x", "y", "z">>

\* chr(ord('a') + n): the letter n places after 'a'.
ChrFromA(n) == IF n < Len(Letters) THEN Letters[n + 1] ELSE "{"

Put(map, k, v) == [x \in DOMAIN map \cup {k} |-> IF x = k THEN v ELSE map[x]]

EmptyMap == [x \in {} |-> <<>>]

\* suffix = chr(ord('a') + author_year_counts[author_year] - 1), the count
\* already incremented.
Suffix(count) == <<ChrFromA(count - 1)>>

\* Phase 1 of _process_citations_early: ref_key_to_citation and
\* author_year_counts after the bibitems from the i-th on.
RECURSIVE BuildKeys(_, _, _, _)
BuildKeys(b, i, map, counts) ==
    IF i > Len(b) THEN map
    ELSE LET key == b[i].key
             author_year == extract_author_year_regex(b[i].text)
         IN  IF key = NoKey THEN BuildKeys(b, i + 1, map, counts)
             ELSE IF b[i].text = TextEmpty
             THEN BuildKeys(b, i + 1, Put(map, key, key), counts)
             ELSE IF author_year \in DOMAIN counts
             THEN BuildKeys(b, i + 1,
                            Put(map, key, author_year \o Suffix(counts[author_year] + 1)),
                            Put(counts, author_year, counts[author_year] + 1))
             ELSE BuildKeys(b, i + 1, Put(map, key, author_year),
                            Put(counts, author_year, 1))

ref_key_to_citation(b) == BuildKeys(b, 1, EmptyMap, EmptyMap)

Lookup(map, k) == IF k \in DOMAIN map THEN map[k] ELSE k

\* Phase 2, for one cite: the citation_parts of its comma-separated keys.
RECURSIVE CitationParts(_, _, _, _)
CitationParts(keys, i, map, parts) ==
    IF i > Len(keys) THEN parts
    ELSE IF keys[i] # <<>> /\ keys[i] \notin Range(parts)
    THEN CitationParts(keys, i + 1, map, Append(parts, Lookup(map, keys[i])))
    ELSE CitationParts(keys, i + 1, map, parts)

\* ', '.join(parts)
RECURSIVE JoinComma(_)
JoinComma(parts) ==
    IF Len(parts) = 0 THEN <<>>
    ELSE IF Len(parts) = 1 THEN parts[1]
    ELSE parts[1] \o <<", ">> \o JoinComma(Tail(parts))

\* f"[{', '.join(parts)}]"
Bracketed(parts) == <<"[">> \o JoinComma(parts) \o <<"]">>

RewriteCite_KeepAll(keys, map) ==
    LET kept == SelectSeq(keys, LAMBDA k : k # <<>>)
        parts == [i \in 1..Len(kept) |-> Lookup(map, kept[i])]
    IN  IF Len(parts) > 0
        THEN [removed |-> FALSE, parts |-> parts, text |-> Bracketed(parts)]
        ELSE [removed |-> TRUE, parts |-> <<>>, text |-> <<>>]

\* What becomes of one cite element: its text replaced, or the element
\* removed when it holds no bibref or no key.
RewriteCite(keys, map) ==
    LET parts == CitationParts(keys, 1, map, <<>>)
    IN  IF Len(parts) > 0
        THEN [removed |-> FALSE, parts |-> parts, text |-> Bracketed(parts)]
        ELSE [removed |-> TRUE, parts |-> <<>>, text |-> <<>>]

IsPrefix(p, t) == Len(p) <= Len(t) /\ SubSeq(t, 1, Len(p)) = p

\* _add_author_year_tags: the bibblock text gets "<key>: " in front unless it
\* starts with the key already.
StartsWith(text, str) ==
    Len(text) > 0 /\ text[1].k \in {"cap", "tag"} /\ IsPrefix(str, text[1].s)

TaggedText(entry, map) ==
    IF entry.key # NoKey /\ entry.key \in DOMAIN map /\ entry.text # TextEmpty
       /\ ~StartsWith(entry.text, map[entry.key])
    THEN <<Tok("tag", map[entry.key] \o <<": ">>)>> \o entry.text
    ELSE entry.text

ProcessCitationsEarly ==
    /\ tool = "early"
    /\ ~out.done
    /\ LET map == ref_key_to_citation(bib)
       IN  /\ out' = [done |-> TRUE, map |-> map,
                      cites |-> [i \in 1..Len(cites) |-> RewriteCite(cites[i], map)]]
           /\ bib' = [i \in 1..Len(bib) |->
                         [key |-> bib[i].key, text |-> TaggedText(bib[i], map)]]
    /\ UNCHANGED <<tool, scoreVars, cites, parseVars, runVars>>

(***************************************************************************)
(* The citation extractors of the rules-based and of the hybrid converter. *)
(* cites holds the keys argument of every \cite command, split at commas   *)
(* and stripped.                                                           *)
(***************************************************************************)
RECURSIVE Flatten(_)
Flatten(ss) == IF Len(ss) = 0 THEN <<>> ELSE Head(ss) \o Flatten(Tail(ss))

\* RulesBasedConverter._extract_citations: list(set(citations)), in the
\* order the set happens to iterate.
RulesExtractCitations ==
    /\ tool = "rules"
    /\ ~out.done
    /\ \E listed \in Perms(Range(Flatten(cites))) :
           out' = [done |-> TRUE, citations |-> listed]
    /\ UNCHANGED <<tool, scoreVars, bib, cites, parseVars, runVars>>

\* StructuralExtractor._extract_citations: one {'id': cite_N, 'ref_key'}
\* per key, N the number of the command.
RECURSIVE HybridCitations(_, _)
HybridCitations(cs, n) ==
    IF n > Len(cs) THEN <<>>
    ELSE [i \in 1..Len(cs[n]) |-> [id |-> n, ref_key |-> cs[n][i]]]
         \o HybridCitations(cs, n + 1)

HybridExtractCitations ==
    /\ tool = "hybrid"
    /\ ~out.done
    /\ out' = [done |-> TRUE, citations |-> HybridCitations(cites, 1)]
    /\ UNCHANGED <<tool, scoreVars, bib, cites, parseVars, runVars>>


(***************************************************************************)
(* ContentCleaner.clean_sections_with_inline_equations, third step: every  *)
(* citation placeholder becomes the bracketed list of the first authors of *)
(* the cited references.  Here bib holds the references [id, authors].     *)
(***************************************************************************)
RECURSIVE FindRef(_, _, _)
FindRef(refs, key, i) ==
    IF i > Len(refs) THEN 0
    ELSE IF refs[i].id = key THEN i
    ELSE FindRef(refs, key, i + 1)

AuthorName(refs, key) ==
    LET r == FindRef(refs, key, 1)
    IN  IF r # 0 /\ Len(refs[r].authors) > 0 THEN refs[r].authors[1] ELSE key

CleanCitation(keys, refs) ==
    LET author_names == [i \in 1..Len(keys) |-> AuthorName(refs, keys[i])]
    IN  [removed |-> FALSE, parts |-> author_names, text |-> Bracketed(author_names)]

CleanSections ==
    /\ tool = "clean"
    /\ ~out.done
    /\ out' = [done |-> TRUE,
               cites |-> [i \in 1..Len(cites) |-> CleanCitation(cites[i], bib)]]
    /\ UNCHANGED <<tool, scoreVars, bib, cites, parseVars, runVars>>

HybridRefs == {[id |-> <<"a">>, authors |-> <<Smith>>],
               [id |-> <<"a">>, authors |-> <<>>],
               [id |-> <<"b">>, authors |-> <<<<"Lee">>, Smith>>]}

(***************************************************************************)
(* LaTeXMLConverter._fix_citations_cognitively, the loop over the cite     *)
(* elements.  Here bib holds xml_to_citation as the sequence of its items  *)
(* [id, key], and cites holds one parent element: its text and its         *)
(* children [tag, refs, text, tail].                                       *)
(***************************************************************************)
MaxKids == 2
MaxRefs == 2

XmlIds == {"bib1", "bib2"}
OneMapped == <<[id |-> "bib1", key |-> SmithKey]>>
TwoMapped == <<[id |-> "bib1", key |-> SmithKey], [id |-> "bib2", key |-> <<"Lee", "2019">>]>>

RECURSIVE ItemOf(_, _, _)
ItemOf(items, id, i) ==
    IF i > Len(items) THEN 0
    ELSE IF items[i].id = id THEN i
    ELSE ItemOf(items, id, i + 1)

\* new_citations: the keys of the refs that xml_to_citation knows.
RECURSIVE NewCitations(_, _, _)
NewCitations(refs, items, i) ==
    IF i > Len(refs) THEN <<>>
    ELSE (IF ItemOf(items, refs[i], 1) # 0
          THEN <<items[ItemOf(items, refs[i], 1)].key>>
          ELSE <<>>) \o NewCitations(refs, items, i + 1)

Remove(kids, j) == SubSeq(kids, 1, j - 1) \o SubSeq(kids, j + 1, Len(kids))

\* cite_text.replace('[bib_key]', '[citation_key]')
RECURSIVE ReplaceKey(_, _, _)
ReplaceKey(text, id, key) ==
    IF Len(text) < 3 THEN text
    ELSE IF text[1] = "[" /\ text[2] = id /\ text[3] = "]"
    THEN <<"[">> \o key \o <<"]">> \o ReplaceKey(SubSeq(text, 4, Len(text)), id, key)
    ELSE <<text[1]>> \o ReplaceKey(Tail(text), id, key)

\* The items of xml_to_citation whose bib_key occurs in the cite's text.
Matching(items, text) ==
    SelectSeq(items, LAMBDA it : it.id \in Range(text))

\* The parent after the cite elements from the j-th child on were handled;
\* error: a cite already removed is removed again (its parent is None).
RECURSIVE FixCites(_, _, _)
FixCites(parent, items, j) ==
    IF j > Len(parent.kids) THEN parent
    ELSE LET kid == parent.kids[j]
             new_citations == NewCitations(kid.refs, items, 1)
             found == Matching(items, kid.text)
         IN  IF kid.tag # "cite" THEN FixCites(parent, items, j + 1)
             ELSE IF Len(kid.refs) > 0
             THEN IF Len(new_citations) > 0
                  THEN FixCites([parent EXCEPT
                                   !.text = @ \o Bracketed(new_citations) \o kid.tail,
                                   !.kids = Remove(@, j),
                                   !.rewritten = Append(@, [refs |-> kid.refs,
                                                            parts |-> new_citations])],
                                items, j)
                  ELSE FixCites(parent, items, j + 1)
             ELSE IF Len(found) = 0 THEN FixCites(parent, items, j + 1)
             ELSE IF Len(found) > 1
             THEN [parent EXCEPT
                     !.text = @ \o ReplaceKey(kid.text, found[1].id, found[1].key)
                                \o kid.tail,
                     !.kids = Remove(@, j),
                     !.error = TRUE]
             ELSE FixCites([parent EXCEPT
                              !.text = @ \o ReplaceKey(kid.text, found[1].id, found[1].key)
                                         \o kid.tail,
                              !.kids = Remove(@, j)],
                           items, j)

FixCitationsCognitively ==
    /\ tool = "cognitive"
    /\ ~out.done
    /\ out' = [done |-> TRUE, parent |-> FixCites(cites, bib, 1)]
    /\ UNCHANGED <<tool, scoreVars, bib, cites, parseVars, runVars>>

(***************************************************************************)
(* LaTeXMLConverter._rebuild_bibliography (latex_to_xml.py).  Here bib     *)
(* holds the bibitems of the bibliography, [id, key, text], and cites      *)
(* holds bib_data, the answer of the service as the sequence of its items  *)
(* [key, text].                                                            *)
(***************************************************************************)
\* citation_key.lower()
lower(key) ==
    [i \in 1..Len(key) |->
        CASE key[i] = "Smith" -> "smith"
          [] key[i] = "Lee" -> "lee"
          [] OTHER -> key[i]]

\* The bibitem made of the i-th item of bib_data.
NewBibitem(bib_data, i) ==
    [id |-> <<"bib.bib", i>>,
     key |-> lower(bib_data[i].key),
     text |-> <<"[">> \o bib_data[i].key \o <<"]: ">> \o bib_data[i].text]

RebuildBibliography ==
    /\ tool = "rebuild"
    /\ ~out.done
    /\ bib' = [i \in 1..Len(cites) |-> NewBibitem(cites, i)]
    /\ out' = [done |-> TRUE]
    /\ UNCHANGED <<tool, scoreVars, cites, parseVars, runVars>>

\* The keys the bibitems of the source carry, and the keys the service
\* makes of them: first author and year.
LatexKeys == {<<"smith", "2020">>, <<"lee19">>}
CitationKeys == {SmithKey, <<"Lee", "2019">>, <<"Lee", "2020">>}

OldBibliographies ==
    {b \in UNION {[1..n -> [id : {<<"bib.bib", i>> : i \in 1..MaxBib},
                            key : LatexKeys, text : {<<"entry">>}]] :
                     n \in 0..(MaxBib - 1)} :
        /\ \A i \in 1..Len(b) : b[i].id = <<"bib.bib", i>>
        /\ \A i, j \in 1..Len(b) : i # j => b[i].key # b[j].key}

BibData ==
    {d \in SeqsUpTo([key : CitationKeys, text : {<<"entry">>}], MaxBib - 1) :
        \A i, j \in 1..Len(d) : i # j => d[i].key # d[j].key}

Em == [tag |-> "em", refs |-> <<>>, text |-> <<"e">>, tail |-> <<"u">>]
CiteKids ==
    {[tag |-> "cite", refs |-> r, text |-> <<>>, tail |-> t] :
         r \in SeqsUpTo(XmlIds, MaxRefs) \ {<<>>}, t \in {<<>>, <<"t">>}}
    \cup {[tag |-> "cite", refs |-> <<>>, text |-> x, tail |-> <<"t">>] :
              x \in {<<"[", "bib1", "]">>, <<"[", "bib1", ",", "bib2", "]">>,
                     <<"[", "bib9", "]">>}}
Parents ==
    {[text |-> t, kids |-> k, rewritten |-> <<>>, error |-> FALSE] :
         t \in {<<>>, <<"p">>}, k \in SeqsUpTo(CiteKids \cup {Em}, MaxKids)}

(***************************************************************************)
(* The citation specification: one of the citation operations is run on    *)
(* its inputs.                                                             *)
(***************************************************************************)
CiteTokens == {<<>>, <<"a">>, <<"b">>, <<"x">>, SmithKey}
Commands == SeqsUpTo(CiteTokens, MaxKeys)
NamedBibs == {<<>>,
              <<[key |-> <<"a">>, text |-> TextInitialSurname],
                [key |-> <<"b">>, text |-> TextEmpty]>>,
              <<[key |-> <<"a">>, text |-> TextAndNoYear],
                [key |-> <<"b">>, text |-> TextFallback]>>}
NamedCites == {<<<<<<"a">>, <<"b">>, <<"a">>>>>>,
               <<<<<<"b">>>>, <<<<"a">>, SmithKey>>>>}

InitCite ==
    /\ tool \in {"early", "rules", "hybrid", "clean", "cognitive", "rebuild"}
    /\ \/ /\ tool = "early"
          /\ \/ bib \in Bibs /\ cites \in NamedCites
             \/ bib \in NamedBibs /\ cites \in {<<c>> : c \in Commands}
       \/ /\ tool \in {"rules", "hybrid"}
          /\ bib = <<>>
          /\ cites \in {<<c>> : c \in Commands \ {<<>>}}
                   \cup {<<<<<<"b">>>>, c>> : c \in Commands \ {<<>>}}
       \/ /\ tool = "clean"
          /\ bib \in SeqsUpTo(HybridRefs, MaxBib)
          /\ cites \in {<<c>> : c \in Commands \ {<<>>}}
       \/ /\ tool = "cognitive"
          /\ bib \in {OneMapped, TwoMapped}
          /\ cites \in Parents
       \/ /\ tool = "rebuild"
          /\ bib \in OldBibliographies
          /\ cites \in BibData
    /\ out = NoOut
    /\ doc = EmptyDoc
    /\ lx = LxEmpty
    /\ order = <<>>
    /\ issues = NoIssues
    /\ calls = 0
    /\ run = 1
    /\ report = NoReport
    /\ json = NoJson
    /\ prev = NoReport
    /\ quality_score = NoScore
    /\ rating = ""
    /\ latex_content = <<>>
    /\ label_mapping = <<>>
    /\ proc = NoProc

NextCite ==
    \/ ProcessCitationsEarly
    \/ RulesExtractCitations
    \/ HybridExtractCitations
    \/ CleanSections
    \/ FixCitationsCognitively
    \/ RebuildBibliography

SpecCite == InitCite /\ [][NextCite]_vars

(***************************************************************************)
(* The extractors that read the LaTeX source.                              *)
(*                                                                         *)
(* latex_content is a sequence of tokens [k, level, title]: a run of text, *)
(* a newline, a section-like command with its level and title, the begin   *)
(* of the bibliography, or \end{document}.  A position of the source is an *)
(* index of this sequence; a title is a sequence of words.                 *)
(***************************************************************************)
MaxTokens == 4

Token(k, level, title) == [k |-> k, level |-> level, title |-> title]
TextRun == Token("text", "", <<>>)
Newline == Token("nl", "", <<>>)
BibBegin == Token("bib", "", <<>>)
EndDocument == Token("enddoc", "", <<>>)
Sec(level, title) == Token("sec", level, title)

SectionTokens ==
    {TextRun, Newline, BibBegin, EndDocument,
     Sec("section", <<"Intro">>), Sec("section", <<"1.", "Intro">>),
     Sec("section", <<"Method">>), Sec("subsection", <<"Intro">>),
     Sec("subsubsection", <<"Method">>)}

IsSec(c, i) == c[i].k = "sec"

SecLevels == {"section", "subsection", "subsubsection"}

\* What stands at position i: the level of a section-like command, or the
\* kind of the token.
Kind(c, i) == IF IsSec(c, i) THEN c[i].level ELSE c[i].k

\* The first position from p on whose kind is in K, or 0.
RECURSIVE FirstFrom(_, _, _)
FirstFrom(c, p, K) ==
    IF p > Len(c) THEN 0
    ELSE IF Kind(c, p) \in K THEN p
    ELSE FirstFrom(c, p + 1, K)

\* re.search(r'\\begin\{thebibliography\}', content[start_pos:]): where the
\* last section ends.
LastEnd(c, start_pos) ==
    LET refs_match == FirstFrom(c, start_pos, {"bib"})
    IN  IF refs_match # 0 THEN refs_match - 1 ELSE Len(c)

\* One extracted section: the position of its command, and its content
\* content[from..to].
Section(id, c, pos, level, from, to) ==
    [id |-> id, title |-> c[pos].title, level |-> level, pos |-> pos,
     from |-> from, to |-> to, content |-> SubSeq(c, from, to),
     subsections |-> <<>>]

(***************************************************************************)
(* LaTeXToJsonConverter._extract_sections and _organize_sections.          *)
(***************************************************************************)
LineStart(c, p) == p = 1 \/ c[p - 1].k = "nl"

\* ^(?!%).*?\\(sub)*section\{([^}]+)\} from the line start p: the first
\* section-like command of the line, or 0.
RECURSIVE FirstSecInLine(_, _)
FirstSecInLine(c, p) ==
    IF p > Len(c) \/ c[p].k = "nl" THEN 0
    ELSE IF IsSec(c, p) THEN p
    ELSE FirstSecInLine(c, p + 1)

\* re.finditer(section_pattern, content, re.MULTILINE) from position p on:
\* every match begins at a line start and ends with its command.
RECURSIVE section_matches(_, _)
section_matches(c, p) ==
    IF p > Len(c) THEN <<>>
    ELSE IF ~LineStart(c, p) THEN section_matches(c, p + 1)
    ELSE LET e == FirstSecInLine(c, p)
         IN  IF e = 0 THEN section_matches(c, p + 1)
             ELSE <<[start |-> p, end |-> e]>> \o section_matches(c, e + 1)

Lower(w) ==
    CASE w = "Intro" -> "intro"
      [] w = "Method" -> "method"
      [] OTHER -> w

IsNumber(w) == w \in {"1.", "2."}

\* _create_section_id: the leading number removed, lower case, the words
\* joined by underscores.
RECURSIVE JoinUnderscore(_)
JoinUnderscore(ws) ==
    IF Len(ws) = 0 THEN <<>>
    ELSE IF Len(ws) = 1 THEN <<Lower(ws[1])>>
    ELSE <<Lower(ws[1]), "_">> \o JoinUnderscore(Tail(ws))

create_section_id(title) ==
    JoinUnderscore(IF Len(title) > 0 /\ IsNumber(title[1]) THEN Tail(title) ELSE title)

JsonLevel(type) == IF type = "section" THEN 1 ELSE 2

json_sections(c) ==
    LET ms == section_matches(c, 1)
    IN  [i \in 1..Len(ms) |->
            LET start_pos == ms[i].end + 1
                end_pos == IF i + 1 <= Len(ms) THEN ms[i + 1].start - 1
                           ELSE LastEnd(c, start_pos)
            IN  Section(create_section_id(c[ms[i].end].title), c, ms[i].end,
                        JsonLevel(c[ms[i].end].level), start_pos, end_pos)]

\* _organize_sections: the sections from the i-th on filed under the main
\* sections found so far; current_main is the last of organized, if any.
RECURSIVE organize_sections(_, _, _)
organize_sections(sections, i, organized) ==
    IF i > Len(sections) THEN organized
    ELSE IF sections[i].level = 1
    THEN organize_sections(sections, i + 1, Append(organized, sections[i]))
    ELSE IF Len(organized) > 0
    THEN organize_sections(sections, i + 1,
             [organized EXCEPT ![Len(organized)].subsections = Append(@, sections[i])])
    ELSE organize_sections(sections, i + 1, organized)

JsonExtractSections ==
    /\ tool = "json_sections"
    /\ ~out.done
    /\ out' = [done |-> TRUE,
               sections |-> organize_sections(json_sections(latex_content), 1, <<>>)]
    /\ UNCHANGED <<tool, scoreVars, bib, cites, parseVars, runVars>>

(***************************************************************************)
(* StructuralExtractor.extract_sections of the hybrid converter: a flat    *)
(* list of the section-like commands, each with the text up to the next.   *)
(***************************************************************************)
LevelRank(level) ==
    CASE level = "section" -> 1
      [] level = "subsection" -> 2
      [] OTHER -> 3

\* The levels that are not deeper than level.
UpTo(level) == {l \in SecLevels : LevelRank(l) <= LevelRank(level)}

hybrid_sections_Nested(c) ==
    LET matches == SelectSeq([i \in 1..Len(c) |-> i], LAMBDA i : IsSec(c, i))
    IN  [i \in 1..Len(matches) |->
            LET section_start == matches[i] + 1
                next == FirstFrom(c, section_start, UpTo(c[matches[i]].level))
                section_end == IF next # 0 THEN next - 1
                               ELSE LastEnd(c, section_start)
            IN  Section(<<"section_", i>>, c, matches[i], c[matches[i]].level,
                        section_start, section_end)]

hybrid_sections(c) ==
    LET matches == SelectSeq([i \in 1..Len(c) |-> i], LAMBDA i : IsSec(c, i))
    IN  [i \in 1..Len(matches) |->
            LET section_start == matches[i] + 1
                section_end == IF i + 1 <= Len(matches) THEN matches[i + 1] - 1
                               ELSE LastEnd(c, section_start)
            IN  Section(<<"section_", i>>, c, matches[i], c[matches[i]].level,
                        section_start, section_end)]

HybridExtractSections ==
    /\ tool = "hybrid_sections"
    /\ ~out.done
    /\ out' = [done |-> TRUE, sections |-> hybrid_sections(latex_content)]
    /\ UNCHANGED <<tool, scoreVars, bib, cites, parseVars, runVars>>

(***************************************************************************)
(* RulesBasedConverter._extract_sections and _add_sections_to_xml: the     *)
(* content runs to the next section-like command, to \end{document} or to  *)
(* the end of the source.                                                  *)
(***************************************************************************)
rules_sections(c) ==
    LET matches == SelectSeq([i \in 1..Len(c) |-> i], LAMBDA i : IsSec(c, i))
    IN  [i \in 1..Len(matches) |->
            LET stop == FirstFrom(c, matches[i] + 1, SecLevels \cup {"enddoc"})
            IN  Section(<<"section_", i>>, c, matches[i], c[matches[i]].level,
                        matches[i] + 1, IF stop # 0 THEN stop - 1 ELSE Len(c))]

RulesExtractSections ==
    /\ tool = "rules_sections"
    /\ ~out.done
    /\ out' = [done |-> TRUE, sections |-> rules_sections(latex_content)]
    /\ UNCHANGED <<tool, scoreVars, bib, cites, parseVars, runVars>>

(***************************************************************************)
(* convert_latex_to_xml of improved_latex_to_xml.py: the \section commands *)
(* with the text up to the next \section, the bibliography, \end{document} *)
(* or the end; the \subsection commands are then looked for inside it.     *)
(***************************************************************************)
IsTop(c, i) == IsSec(c, i) /\ c[i].level = "section"
IsSub(c, i) == IsSec(c, i) /\ c[i].level = "subsection"
TopStops == {"section", "bib", "enddoc"}
SubStops == {"subsection"} \cup TopStops

improved_subsections(c, section_id, from, to) ==
    LET matches == SelectSeq([i \in 1..Len(c) |-> i],
                             LAMBDA i : i >= from /\ i <= to /\ IsSub(c, i))
    IN  [j \in 1..Len(matches) |->
            LET stop == FirstFrom(c, matches[j] + 1, SubStops)
            IN  Section(<<"sec", section_id, "_", j>>, c, matches[j], 2, matches[j] + 1,
                        IF stop # 0 /\ stop <= to THEN stop - 1 ELSE to)]

improved_sections(c) ==
    LET matches == SelectSeq([i \in 1..Len(c) |-> i], LAMBDA i : IsTop(c, i))
    IN  [i \in 1..Len(matches) |->
            LET stop == FirstFrom(c, matches[i] + 1, TopStops)
                to == IF stop # 0 THEN stop - 1 ELSE Len(c)
                subs == improved_subsections(c, i, matches[i] + 1, to)
                first_subsection_pos == IF Len(subs) > 0 THEN subs[1].pos ELSE to + 1
            IN  [Section(<<"sec", i>>, c, matches[i], 1, matches[i] + 1,
                         first_subsection_pos - 1)
                 EXCEPT !.subsections = subs]]

ImprovedExtractSections ==
    /\ tool = "improved_sections"
    /\ ~out.done
    /\ out' = [done |-> TRUE, sections |-> improved_sections(latex_content)]
    /\ UNCHANGED <<tool, scoreVars, bib, cites, parseVars, runVars>>

(***************************************************************************)
(* The extractors of tables and equations.  For them latex_content is a    *)
(* sequence of tokens [k, env]: the begin or the end of an environment, a  *)
(* "$$", or a run of text.                                                 *)
(***************************************************************************)
BlockToken(k, env) == [k |-> k, env |-> env]
Begin(env) == BlockToken("begin", env)
End(env) == BlockToken("end", env)
Dollars == BlockToken("dollars", "$$")
BlockText == BlockToken("text", "")

BlockTokens ==
    {BlockText, Dollars} \cup {Begin(e) : e \in {"table", "equation", "align"}}
                         \cup {End(e) : e \in {"table", "equation", "align"}}

\* What opens and what closes a block of the pattern named env:
\* \begin{env} ... \end{env}, or $$ ... $$.
Opens(c, i, env) == IF env = "$$" THEN c[i] = Dollars ELSE c[i] = Begin(env)
Closes(c, i, env) == IF env = "$$" THEN c[i] = Dollars ELSE c[i] = End(env)

RECURSIVE FirstOpen(_, _, _)
FirstOpen(c, p, env) ==
    IF p > Len(c) THEN 0
    ELSE IF Opens(c, p, env) THEN p
    ELSE FirstOpen(c, p + 1, env)

RECURSIVE FirstClose(_, _, _)
FirstClose(c, p, env) ==
    IF p > Len(c) THEN 0
    ELSE IF Closes(c, p, env) THEN p
    ELSE FirstClose(c, p + 1, env)

\* re.finditer(r'\\begin\{env\}(.*?)\\end\{env\}', content, re.DOTALL) from
\* position p on: each match runs from a begin to the first end after it.
RECURSIVE block_matches(_, _, _)
block_matches(c, p, env) ==
    LET b == FirstOpen(c, p, env)
        e == IF b = 0 THEN 0 ELSE FirstClose(c, b + 1, env)
    IN  IF b = 0 \/ e = 0 THEN <<>>
        ELSE <<[pos |-> b, end |-> e, env |-> env]>> \o block_matches(c, e + 1, env)

\* The matches of several patterns, pattern after pattern.
RECURSIVE pattern_matches(_, _)
pattern_matches(c, patterns) ==
    IF Len(patterns) = 0 THEN <<>>
    ELSE block_matches(c, 1, patterns[1]) \o pattern_matches(c, Tail(patterns))

\* The extracted blocks: the i-th match gets the number i.
Blocks(c, matches, prefix) ==
    [i \in 1..Len(matches) |->
        [id |-> <<prefix, i>>, n |-> i, pos |-> matches[i].pos,
         env |-> matches[i].env,
         content |-> SubSeq(c, matches[i].pos + 1, matches[i].end - 1)]]

\* RulesBasedConverter._extract_tables
RulesExtractTables ==
    /\ tool = "rules_tables"
    /\ ~out.done
    /\ out' = [done |-> TRUE,
               blocks |-> Blocks(latex_content,
                                 block_matches(latex_content, 1, "table"), "table_")]
    /\ UNCHANGED <<tool, scoreVars, bib, cites, parseVars, runVars>>

\* equation_patterns of StructuralExtractor.extract_equations, eq_patterns of
\* RulesBasedConverter._extract_equations.
equation_patterns == <<"equation", "align", "eqnarray", "$$">>

\* StructuralExtractor.extract_equations: equation_count runs over the
\* patterns.
HybridExtractEquations ==
    /\ tool = "hybrid_equations"
    /\ ~out.done
    /\ out' = [done |-> TRUE,
               blocks |-> Blocks(latex_content,
                                 pattern_matches(latex_content, equation_patterns),
                                 "eq_")]
    /\ UNCHANGED <<tool, scoreVars, bib, cites, parseVars, runVars>>

\* RulesBasedConverter._extract_equations, numbered by _add_equations_to_xml.
RulesExtractEquations ==
    /\ tool = "rules_equations"
    /\ ~out.done
    /\ out' = [done |-> TRUE,
               blocks |-> Blocks(latex_content,
                                 pattern_matches(latex_content, equation_patterns),
                                 "eq_")]
    /\ UNCHANGED <<tool, scoreVars, bib, cites, parseVars, runVars>>

\* LaTeXToJsonConverter._extract_equations: the equation environments only.
JsonExtractEquations ==
    /\ tool = "json_equations"
    /\ ~out.done
    /\ out' = [done |-> TRUE,
               blocks |-> Blocks(latex_content,
                                 block_matches(latex_content, 1, "equation"), "eq")]
    /\ UNCHANGED <<tool, scoreVars, bib, cites, parseVars, runVars>>

(***************************************************************************)
(* The reference fixers.  For them latex_content is a sequence of tokens:  *)
(* a run of text, the word "Table", "Tables" or "Figure" followed by a     *)
(* tie, or \ref{label}; label_mapping gives the labels that are known.     *)
(* The result gives, position by position, what each token has become.     *)
(***************************************************************************)
MaxRefTokens == 3
MaxLabelNum == 1

Labels == {"tab:a", "fig:b"}
RefText == [k |-> "text"]
Prefix(word) == [k |-> "prefix", word |-> word]
Ref(label) == [k |-> "ref", label |-> label]
RefTokens == {RefText, Prefix("Table"), Prefix("Figure")} \cup {Ref(l) : l \in Labels}

Removed == [k |-> "removed"]
BracketedLabel(label) == [k |-> "bracketed", label |-> label]
Numbered(kind, num) == [k |-> "numbered", kind |-> kind, num |-> num]
PlainWord(word) == [k |-> "word", word |-> word]

LabelMaps(kinds) ==
    UNION {[S -> [kind : kinds, num : 1..MaxLabelNum]] : S \in SUBSET Labels}

IsRef(c, i) == i \in 1..Len(c) /\ c[i].k = "ref"
IsPrefixWord(c, i, words) == i \in 1..Len(c) /\ c[i].k = "prefix" /\ c[i].word \in words
Known(c, i, map) == IsRef(c, i) /\ c[i].label \in DOMAIN map

\* LaTeXMLConverter._fix_references_cognitively: the text of every ref
\* element is set, the text around it is left alone.
fix_references_cognitively(c, label_map) ==
    [i \in 1..Len(c) |->
        IF ~IsRef(c, i) THEN c[i]
        ELSE IF c[i].label \in DOMAIN label_map
             THEN Numbered(label_map[c[i].label].kind, label_map[c[i].label].num)
             ELSE BracketedLabel(c[i].label)]

LatexmlFixReferences ==
    /\ tool = "latexml_refs"
    /\ ~out.done
    /\ out' = [done |-> TRUE,
               text |-> fix_references_cognitively(latex_content, label_mapping)]
    /\ UNCHANGED <<tool, scoreVars, bib, cites, parseVars, runVars>>

\* ContentCleaner.process_table_references: only the refs whose label is
\* in the mapping are replaced, together with a "Table~" or "Tables~" right
\* before them.
process_table_references(c, map) ==
    [i \in 1..Len(c) |->
        IF Known(c, i, map) THEN Numbered("Table", map[c[i].label].num)
        ELSE IF IsPrefixWord(c, i, {"Table", "Tables"}) /\ Known(c, i + 1, map)
             THEN Removed
             ELSE c[i]]

HybridProcessTableReferences ==
    /\ tool = "hybrid_refs"
    /\ ~out.done
    /\ out' = [done |-> TRUE,
               text |-> process_table_references(latex_content, label_mapping)]
    /\ UNCHANGED <<tool, scoreVars, bib, cites, parseVars, runVars>>

\* clean_latex_text: "Figure~\ref{..}" becomes "Figure", "Table~\ref{..}"
\* becomes "Table", and every other \ref{..} is deleted.
clean_latex_text(c) ==
    [i \in 1..Len(c) |->
        IF IsRef(c, i) THEN Removed
        ELSE IF IsPrefixWord(c, i, {"Figure", "Table"}) /\ IsRef(c, i + 1)
             THEN PlainWord(c[i].word)
             ELSE c[i]]

ImprovedCleanLatexText ==
    /\ tool = "improved_refs"
    /\ ~out.done
    /\ out' = [done |-> TRUE, text |-> clean_latex_text(latex_content)]
    /\ UNCHANGED <<tool, scoreVars, bib, cites, parseVars, runVars>>

(***************************************************************************)
(* The metadata extractors.  For them latex_content is a sequence of       *)
(* tokens: a run of text, or a declaration \title{..}, \author{..} or      *)
(* \begin{abstract}..\end{abstract} with its value, a sequence of words    *)
(* (for \author, the names between \And).  No line is commented out.       *)
(***************************************************************************)
MaxDecls == 3

Values == {<<"Ada">>, <<"Bob", "Eve">>}
DeclKinds == {"title", "author", "abstract"}
Decl(kind, value) == [k |-> kind, value |-> value]
MetaText == [k |-> "text", value |-> <<>>]
MetaTokens == {MetaText} \cup {Decl(kind, v) : kind \in DeclKinds, v \in Values}

RECURSIVE FirstDecl(_, _, _)
FirstDecl(c, p, kind) ==
    IF p > Len(c) THEN 0
    ELSE IF c[p].k = kind THEN p
    ELSE FirstDecl(c, p + 1, kind)

RECURSIVE LastDecl(_, _, _)
LastDecl(c, p, kind) ==
    IF p < 1 THEN 0
    ELSE IF c[p].k = kind THEN p
    ELSE LastDecl(c, p - 1, kind)

\* re.search(...).group(1), or the default when nothing matches.
SearchValue(c, kind, default) ==
    IF FirstDecl(c, 1, kind) = 0 THEN default ELSE c[FirstDecl(c, 1, kind)].value

\* re.findall(...)[-1], or the default when nothing matches.
FindallLast(c, kind, default) ==
    IF LastDecl(c, Len(c), kind) = 0 THEN default
    ELSE c[LastDecl(c, Len(c), kind)].value

\* StructuralReviewer.parse_latex_title
parse_latex_title(c) == FindallLast(c, "title", <<>>)

\* StructuralReviewer.parse_latex_authors: the number of names of the last
\* declaration, 0 without a declaration.
parse_latex_authors(c) ==
    IF LastDecl(c, Len(c), "author") = 0 THEN 0
    ELSE Max(Len(FindallLast(c, "author", <<>>)), 1)

\* latex_abstract_len of StructuralReviewer.analyze_all, counted in words.
latex_abstract_len(c) == Len(SearchValue(c, "abstract", <<>>))

ReviewParseMetadata ==
    /\ tool = "review_metadata"
    /\ ~out.done
    /\ out' = [done |-> TRUE,
               title |-> parse_latex_title(latex_content),
               authors |-> parse_latex_authors(latex_content),
               abstract |-> latex_abstract_len(latex_content)]
    /\ UNCHANGED <<tool, scoreVars, bib, cites, parseVars, runVars>>

\* RulesBasedConverter._extract_title, _extract_authors, _extract_abstract
RulesExtractMetadata ==
    /\ tool = "rules_metadata"
    /\ ~out.done
    /\ out' = [done |-> TRUE,
               title |-> SearchValue(latex_content, "title", <<>>),
               authors |-> SearchValue(latex_content, "author", <<>>),
               abstract |-> SearchValue(latex_content, "abstract", <<>>)]
    /\ UNCHANGED <<tool, scoreVars, bib, cites, parseVars, runVars>>

UnknownTitle == <<"Unknown", "Title">>

\* LaTeXToJsonConverter._extract_metadata
JsonExtractMetadata ==
    /\ tool = "json_metadata"
    /\ ~out.done
    /\ out' = [done |-> TRUE,
               title |-> SearchValue(latex_content, "title", UnknownTitle),
               authors |-> SearchValue(latex_content, "author", <<>>),
               abstract |-> SearchValue(latex_content, "abstract", <<>>)]
    /\ UNCHANGED <<tool, scoreVars, bib, cites, parseVars, runVars>>

(***************************************************************************)
(* The splitting of an author block.  Here latex_content is the text       *)
(* between the braces of \author{..} as a sequence of tokens: a name, a    *)
(* comma, the separator \And, or an affiliation ("... University").        *)
(***************************************************************************)
MaxAuthorTokens == 4

NameToken == [k |-> "name"]
AuthorComma == [k |-> "comma"]
AuthorAnd == [k |-> "and"]
Affiliation == [k |-> "university"]
AuthorTokens == {NameToken, AuthorComma, AuthorAnd, Affiliation}

\* text.split(sep): the pieces of c between the tokens of kind sep, the
\* empty ones included.
RECURSIVE SplitAt(_, _, _)
SplitAt(c, sep, piece) ==
    IF Len(c) = 0 THEN <<piece>>
    ELSE IF c[1].k = sep THEN <<piece>> \o SplitAt(Tail(c), sep, <<>>)
    ELSE SplitAt(Tail(c), sep, Append(piece, c[1]))

Count(c, kind) == Cardinality({i \in 1..Len(c) : c[i].k = kind})

\* StructuralReviewer.parse_latex_authors on the last author block: the
\* separators plus one, or else the comma-separated pieces that are not
\* empty and hold no affiliation word, at least 1.
count_authors(author_text) ==
    LET and_separators == Count(author_text, "and")
        names == SelectSeq(SplitAt(author_text, "comma", <<>>),
                           LAMBDA name : Len(name) > 0)
        actual_names == SelectSeq(names, LAMBDA name : Count(name, "university") = 0)
    IN  IF and_separators > 0 THEN and_separators + 1
        ELSE Max(Len(actual_names), 1)

ReviewCountAuthors ==
    /\ tool = "review_authors"
    /\ ~out.done
    /\ out' = [done |-> TRUE, authors |-> count_authors(latex_content)]
    /\ UNCHANGED <<tool, scoreVars, bib, cites, parseVars, runVars>>

\* RulesBasedConverter._extract_authors: the parts between the separators
\* that hold a line.
extract_authors(author_content) ==
    Len(SelectSeq(SplitAt(author_content, "and", <<>>), LAMBDA part : Len(part) > 0))

RulesExtractAuthors ==
    /\ tool = "rules_authors"
    /\ ~out.done
    /\ out' = [done |-> TRUE, authors |-> extract_authors(latex_content)]
    /\ UNCHANGED <<tool, scoreVars, bib, cites, parseVars, runVars>>

\* The splitting loop of LaTeXToJsonConverter._parse_authors_robust: \And
\* separates only when a character follows it in the block; the last
\* section is kept when it is not blank.
RECURSIVE author_sections(_, _, _)
author_sections(author_block, i, current_section) ==
    IF i > Len(author_block)
    THEN IF Len(current_section) > 0 THEN <<current_section>> ELSE <<>>
    ELSE IF author_block[i].k = "and" /\ i < Len(author_block)
    THEN <<current_section>> \o author_sections(author_block, i + 1, <<>>)
    ELSE author_sections(author_block, i + 1, Append(current_section, author_block[i]))

\* _parse_single_author gives None for a section without a line.
parse_authors_robust(author_block) ==
    Len(SelectSeq(author_sections(author_block, 1, <<>>),
                  LAMBDA section : Len(section) > 0))

JsonParseAuthors ==
    /\ tool = "json_authors"
    /\ ~out.done
    /\ out' = [done |-> TRUE, authors |-> parse_authors_robust(latex_content)]
    /\ UNCHANGED <<tool, scoreVars, bib, cites, parseVars, runVars>>

(***************************************************************************)
(* Comment stripping.  Here latex_content is a text as the sequence of its *)
(* characters: a letter, a blank, the comment marker, the escape marker or *)
(* a line break.                                                           *)
(***************************************************************************)
MaxChars == 4

Percent == "%"
Backslash == "\\"
LineBreak == "\n"
Chars == {"a", " ", Percent, Backslash, LineBreak}

\* content.split('\n')
RECURSIVE SplitLines(_, _)
SplitLines(content, line) ==
    IF Len(content) = 0 THEN <<line>>
    ELSE IF content[1] = LineBreak THEN <<line>> \o SplitLines(Tail(content), <<>>)
    ELSE SplitLines(Tail(content), Append(line, content[1]))

\* '\n'.join(lines)
RECURSIVE JoinLines(_)
JoinLines(lines) ==
    IF Len(lines) = 0 THEN <<>>
    ELSE IF Len(lines) = 1 THEN lines[1]
    ELSE lines[1] \o <<LineBreak>> \o JoinLines(Tail(lines))

\* str.rstrip()
RECURSIVE rstrip(_)
rstrip(line) ==
    IF Len(line) > 0 /\ line[Len(line)] = " " THEN rstrip(SubSeq(line, 1, Len(line) - 1))
    ELSE line

\* The while loop of _filter_latex_comments from index i on: the place of
\* the first % that no backslash precedes, or 0.
RECURSIVE comment_pos(_, _)
comment_pos(line, i) ==
    IF i > Len(line) THEN 0
    ELSE IF line[i] = Percent
    THEN IF i = 1 \/ line[i - 1] # Backslash THEN i ELSE comment_pos(line, i + 1)
    ELSE IF line[i] = Backslash /\ i + 1 <= Len(line) /\ line[i + 1] = Percent
    THEN comment_pos(line, i + 2)
    ELSE comment_pos(line, i + 1)

filter_latex_comments(content) ==
    LET lines == SplitLines(content, <<>>)
    IN  JoinLines([n \in 1..Len(lines) |->
                      IF comment_pos(lines[n], 1) > 0
                      THEN rstrip(SubSeq(lines[n], 1, comment_pos(lines[n], 1) - 1))
                      ELSE lines[n]])

RulesFilterComments ==
    /\ tool = "rules_comments"
    /\ ~out.done
    /\ out' = [done |-> TRUE, text |-> filter_latex_comments(latex_content)]
    /\ UNCHANGED <<tool, scoreVars, bib, cites, parseVars, runVars>>

\* The first % of the line, or 0.
RECURSIVE FirstPercent(_, _)
FirstPercent(line, i) ==
    IF i > Len(line) THEN 0
    ELSE IF line[i] = Percent THEN i
    ELSE FirstPercent(line, i + 1)

\* re.sub(r'%.*$', '', text, flags=re.MULTILINE)
sub_comments(text) ==
    LET lines == SplitLines(text, <<>>)
    IN  JoinLines([n \in 1..Len(lines) |->
                      IF FirstPercent(lines[n], 1) > 0
                      THEN SubSeq(lines[n], 1, FirstPercent(lines[n], 1) - 1)
                      ELSE lines[n]])

JsonRemoveComments ==
    /\ tool = "json_comments"
    /\ ~out.done
    /\ out' = [done |-> TRUE, text |-> sub_comments(latex_content)]
    /\ UNCHANGED <<tool, scoreVars, bib, cites, parseVars, runVars>>

ImprovedRemoveComments ==
    /\ tool = "improved_comments"
    /\ ~out.done
    /\ out' = [done |-> TRUE, text |-> sub_comments(latex_content)]
    /\ UNCHANGED <<tool, scoreVars, bib, cites, parseVars, runVars>>

(***************************************************************************)
(* The extraction specification: one extractor is run on a source.         *)
(***************************************************************************)
SectionTools == {"json_sections", "hybrid_sections", "rules_sections",
                 "improved_sections"}

BlockTools == {"rules_tables", "hybrid_equations", "rules_equations",
               "json_equations"}

RefTools == {"latexml_refs", "hybrid_refs", "improved_refs"}

MetaTools == {"review_metadata", "rules_metadata", "json_metadata"}

AuthorTools == {"review_authors", "rules_authors", "json_authors"}

CommentTools == {"rules_comments", "json_comments", "improved_comments"}

InitParse ==
    /\ \/ /\ tool \in SectionTools
          /\ latex_content \in SeqsUpTo(SectionTokens, MaxTokens)
          /\ cites = <<>>
          /\ label_mapping = <<>>
       \/ /\ tool \in BlockTools
          /\ latex_content \in SeqsUpTo(BlockTokens, MaxTokens)
          /\ cites = <<>>
          /\ label_mapping = <<>>
       \/ /\ tool \in RefTools
          /\ latex_content \in SeqsUpTo(RefTokens, MaxRefTokens)
          /\ cites = <<>>
          /\ label_mapping \in LabelMaps(IF tool = "hybrid_refs" THEN {"Table"}
                                         ELSE {"Table", "Figure"})
       \/ /\ tool \in AuthorTools
          /\ latex_content \in SeqsUpTo(AuthorTokens, MaxAuthorTokens)
          /\ cites = <<>>
          /\ label_mapping = <<>>
       \/ /\ tool \in CommentTools
          /\ latex_content \in SeqsUpTo(Chars, MaxChars)
          /\ cites = <<>>
          /\ label_mapping = <<>>
       \/ /\ tool \in MetaTools
          /\ latex_content \in SeqsUpTo(MetaTokens, MaxDecls)
          /\ cites = <<>>
          /\ label_mapping = <<>>
       \/ /\ tool = "hybrid"
          /\ latex_content = <<>>
          /\ label_mapping = <<>>
          /\ cites \in {<<c>> : c \in Commands \ {<<>>}}
                   \cup {<<<<<<"b">>>>, c>> : c \in Commands \ {<<>>}}
    /\ bib = <<>>
    /\ out = NoOut
    /\ doc = EmptyDoc
    /\ lx = LxEmpty
    /\ order = <<>>
    /\ issues = NoIssues
    /\ calls = 0
    /\ run = 1
    /\ report = NoReport
    /\ json = NoJson
    /\ prev = NoReport
    /\ quality_score = NoScore
    /\ rating = ""
    /\ proc = NoProc

NextParse ==
    \/ JsonExtractSections
    \/ HybridExtractSections
    \/ RulesExtractSections
    \/ ImprovedExtractSections
    \/ HybridExtractCitations
    \/ RulesExtractTables
    \/ HybridExtractEquations
    \/ RulesExtractEquations
    \/ JsonExtractEquations
    \/ LatexmlFixReferences
    \/ HybridProcessTableReferences
    \/ ImprovedCleanLatexText
    \/ ReviewParseMetadata
    \/ RulesExtractMetadata
    \/ JsonExtractMetadata
    \/ ReviewCountAuthors
    \/ RulesExtractAuthors
    \/ JsonParseAuthors
    \/ RulesFilterComments
    \/ JsonRemoveComments
    \/ ImprovedRemoveComments

SpecParse == InitParse /\ [][NextParse]_vars

(***************************************************************************)
(* LatexToXmlConverter.convert_latex_to_xml (xml_to_epub/latex_to_xml.py): *)
(* the validation loop around the Q Developer CLI.  proc holds the attempt *)
(* number, the state of the XML file at the output path and how the call   *)
(* ended.  The CLI is outside the program: it reports success or not and   *)
(* leaves the file in any state.                                           *)
(***************************************************************************)
max_attempts == 3

FileStates == {"missing", "invalid", "valid"}

\* _validate_xml: None for a file that exists, parses and has the required
\* elements, an error message otherwise.
validate_xml(file) == IF file = "valid" THEN "None" ELSE "error"

\* One turn of the loop: from the second attempt on the file of the previous
\* attempt is validated for the prompt, then the CLI runs; its success ends
\* the call with the output path, the failure of the last attempt raises.
ConvertAttempt ==
    /\ tool = "q_convert"
    /\ proc.pc = "loop"
    /\ \E success \in BOOLEAN, written \in FileStates :
           proc' = [proc EXCEPT
                       !.error_msg = IF proc.attempt = 1 THEN "none"
                                     ELSE validate_xml(proc.file),
                       !.file = written,
                       !.invocations = @ + 1,
                       !.attempt = IF success THEN @ ELSE @ + 1,
                       !.pc = IF success THEN "returned"
                              ELSE IF proc.attempt = max_attempts THEN "raised"
                              ELSE "loop"]
    /\ UNCHANGED <<tool, scoreVars, citeVars, parseVars>>

InitConvert ==
    /\ tool = "q_convert"
    /\ proc \in [pc : {"loop"}, attempt : {1}, invocations : {0},
                 file : FileStates, error_msg : {"none"}]

(***************************************************************************)
(* OptimizedCognitiveConverter.convert_with_monitoring                     *)
(* (latex_to_xml_cognitive.py): up to max_iterations runs of the CLI, each *)
(* assessed by running review_structure.py --json.  proc holds the         *)
(* iteration, best_score and best_file (0 for None), the iteration files   *)
(* that exist, and the result.                                             *)
(***************************************************************************)
max_iterations == 2
target_quality == 85

\* The overall scores the reviewer may print, in percent.
Scores == {0, 55, 90}

\* The lines of json.dumps(result, indent=2) as output_json prints it: the
\* opening brace, the "overall_score" member, the other members, the closing
\* brace; of each line its first character and the key it holds.
json_lines(overall_score) ==
    <<[first |-> "{", key |-> "", value |-> 0],
      [first |-> "\"", key |-> "overall_score", value |-> overall_score],
      [first |-> "\"", key |-> "analysis", value |-> 0],
      [first |-> "}", key |-> "", value |-> 0]>>

\* _assess_quality: the overall_score of the first output line that starts
\* with '{' and holds 'overall_score'; 0 when there is none or the reviewer
\* failed.
RECURSIVE scan_lines(_, _)
scan_lines(output_lines, i) ==
    IF i > Len(output_lines) THEN 0
    ELSE IF output_lines[i].first = "{" /\ output_lines[i].key = "overall_score"
    THEN output_lines[i].value
    ELSE scan_lines(output_lines, i + 1)

cognitive_assess_quality(returncode, output_lines) ==
    IF returncode = 0 THEN scan_lines(output_lines, 1) ELSE 0

\* One iteration of the loop; the last one, or one that reaches the target,
\* is followed by the copy of the best file and the return.
CognitiveIteration ==
    /\ tool = "cognitive_monitor"
    /\ proc.pc = "loop"
    /\ \E success \in BOOLEAN, created \in BOOLEAN, returncode \in {0, 1},
          overall_score \in Scores :
           LET iteration == proc.iteration
               exists == IF created THEN proc.exists \cup {iteration} ELSE proc.exists
               usable == success /\ iteration \in exists
               score == cognitive_assess_quality(returncode, json_lines(overall_score))
               better == usable /\ score > proc.best_score
               best_score == IF better THEN score ELSE proc.best_score
               best_file == IF better THEN iteration ELSE proc.best_file
               stop == (usable /\ score >= target_quality) \/ iteration = max_iterations
               copy == best_file # 0 /\ best_file \in exists
           IN  proc' = [pc |-> IF stop THEN "done" ELSE "loop",
                        iteration |-> IF stop THEN iteration ELSE iteration + 1,
                        best_score |-> best_score,
                        best_file |-> best_file,
                        exists |-> exists,
                        assessed |-> IF usable THEN Append(proc.assessed,
                                                           [iteration |-> iteration,
                                                            score |-> score])
                                     ELSE proc.assessed,
                        output |-> IF stop /\ copy THEN best_file ELSE 0,
                        result |-> stop /\ copy]
    /\ UNCHANGED <<tool, scoreVars, citeVars, parseVars>>

InitCognitive ==
    /\ tool = "cognitive_monitor"
    /\ proc = [pc |-> "loop", iteration |-> 1, best_score |-> 0, best_file |-> 0,
               exists |-> {}, assessed |-> <<>>, output |-> 0, result |-> FALSE]

(***************************************************************************)
(* HybridLatexToXmlConverter.convert_to_xml (latex_to_xml_hybrid.py), from *)
(* the assembly on.  proc holds the state of the output file (missing,     *)
(* left by an earlier run, or written by this call), the state it was in   *)
(* when it was assessed, and the score reported.                           *)
(***************************************************************************)
\* HybridLatexToXmlConverter._assess_quality: StructuralReviewer has no
\* method generate_analysis_report, and its constructor fails on a missing
\* file: the except branch returns 0.0 in both cases.
hybrid_assess_quality(file) == 0

\* Phase 3, phase 5 and the saving of the output, in the order of the code:
\* the file is assessed, then written.
HybridConvertToXml ==
    /\ tool = "hybrid_convert"
    /\ proc.pc = "assembled"
    /\ proc' = [pc |-> "done",
                assessed |-> proc.file,
                quality_score |-> hybrid_assess_quality(proc.file),
                file |-> "current"]
    /\ UNCHANGED <<tool, scoreVars, citeVars, parseVars>>

InitHybridConvert ==
    /\ tool = "hybrid_convert"
    /\ proc \in [pc : {"assembled"}, assessed : {"none"}, quality_score : {0},
                 file : {"missing", "earlier"}]

(***************************************************************************)
(* BedrockClient.call_llm of the three converters, which share the cache   *)
(* files output/bedrock_cache_<key>.json.  proc holds the cache (key to    *)
(* record), the answers the service has given so far, and what the last    *)
(* call did.  The service is outside the program: it fails or answers.     *)
(***************************************************************************)
MaxLlmCalls == 3

ModelId == <<"m">>
Prompts == {<<"p">>, <<"p", ":", "q">>}
Inputs == {<<"x">>, <<"q", ":", "x">>}
Requests == [prompt : Prompts, input_text : Inputs]
Responses == {"r1", "r2"}

\* cache_content = f"{model_id}:{prompt}:{input_text}", and with
\* ":{max_tokens}" at its end in latex_to_xml.py.
cache_content(client, request) ==
    ModelId \o <<":">> \o request.prompt \o <<":">> \o request.input_text
            \o (IF client = "root" THEN <<":", "4000">> ELSE <<>>)

\* hashlib.md5(..).hexdigest(), taken to be free of collisions: the key
\* stands for the content it was made of.
cache_key(client, request) == cache_content(client, request)

\* The member of the cache record a client writes and reads.
Member(client) == IF client = "hybrid" THEN "response" ELSE "result"

NoCache == [k \in {} |-> [member |-> "", text |-> ""]]

\* json.load(f)[member] succeeds.
Readable(cache, key, client) ==
    key \in DOMAIN cache /\ cache[key].member = Member(client)

\* One call of call_llm by a client: the cached text when the record can be
\* read, else the call of the service, whose answer is cached.
call_llm(client) ==
    /\ tool = "bedrock"
    /\ proc.n < MaxLlmCalls
    /\ \E request \in Requests, answer \in Responses \cup {"fails"} :
           LET key == cache_key(client, request)
               hit == Readable(proc.cache, key, client)
               ok == ~hit /\ answer # "fails"
           IN  proc' = [pc |-> "called",
                        n |-> proc.n + 1,
                        cache |-> IF ok
                                  THEN [k \in DOMAIN proc.cache \cup {key} |->
                                           IF k = key
                                           THEN [member |-> Member(client), text |-> answer]
                                           ELSE proc.cache[k]]
                                  ELSE proc.cache,
                        served |-> IF ok
                                   THEN proc.served \cup {[request |-> request,
                                                           text |-> answer]}
                                   ELSE proc.served,
                        last |-> [client |-> client,
                                  request |-> request,
                                  source |-> IF hit THEN "cache" ELSE "service",
                                  result |-> IF hit THEN proc.cache[key].text
                                             ELSE IF ok THEN answer ELSE "None",
                                  before |-> proc.cache]]
    /\ UNCHANGED <<tool, scoreVars, citeVars, parseVars>>

\* latex_to_xml_hybrid.py
HybridCallLlm == call_llm("hybrid")

\* latex_to_xml_latexml.py
LatexmlCallLlm == call_llm("latexml")

\* latex_to_xml.py
RootCallLlm == call_llm("root")

NoCall == [client |-> "", request |-> [prompt |-> <<>>, input_text |-> <<>>],
           source |-> "", result |-> "", before |-> NoCache]

\* The cache directory is empty, or holds a file that is no JSON record.
InitBedrock ==
    /\ tool = "bedrock"
    /\ \E cache \in {NoCache}
                    \cup {[k \in {cache_key("hybrid", r)} |->
                              [member |-> "garbage", text |-> ""]] : r \in Requests} :
           proc = [pc |-> "called", n |-> 0, cache |-> cache, served |-> {},
                   last |-> NoCall]

(***************************************************************************)
(* The run specification: one conversion run, or a sequence of calls of    *)
(* the service client.                                                     *)
(***************************************************************************)
InitRun ==
    /\ \/ InitConvert
       \/ InitCognitive
       \/ InitHybridConvert
       \/ InitBedrock
    /\ bib = <<>>
    /\ cites = <<>>
    /\ out = NoOut
    /\ doc = EmptyDoc
    /\ lx = LxEmpty
    /\ order = <<>>
    /\ issues = NoIssues
    /\ calls = 0
    /\ run = 1
    /\ report = NoReport
    /\ json = NoJson
    /\ prev = NoReport
    /\ quality_score = NoScore
    /\ rating = ""
    /\ latex_content = <<>>
    /\ label_mapping = <<>>

NextRun ==
    \/ ConvertAttempt
    \/ CognitiveIteration
    \/ HybridConvertToXml
    \/ HybridCallLlm
    \/ LatexmlCallLlm
    \/ RootCallLlm

SpecRun == InitRun /\ [][NextRun]_vars

(***************************************************************************)
(* The scoring specification: one of the two tools is run on its inputs.   *)
(***************************************************************************)
Init ==
    /\ tool \in {"review", "convert"}
    /\ doc \in (IF tool = "review" THEN Docs ELSE {EmptyDoc})
    /\ lx \in (IF tool = "convert" THEN Lxs ELSE {LxEmpty})
    /\ order \in Perms(missing_titles(doc))
    /\ issues = NoIssues
    /\ calls = 0
    /\ run = 1
    /\ report = NoReport
    /\ json = NoJson
    /\ prev = NoReport
    /\ quality_score = NoScore
    /\ rating = ""
    /\ bib = <<>>
    /\ cites = <<>>
    /\ out = NoOut
    /\ latex_content = <<>>
    /\ label_mapping = <<>>
    /\ proc = NoProc

Next ==
    \/ AnalyzeAll
    \/ JsonReport
    \/ NewReviewer
    \/ AssessQuality
    \/ PrintResults

Spec == Init /\ [][Next]_vars

(***************************************************************************)
(* Properties of the scorers.                                              *)
(***************************************************************************)
\* The target structure equals the source structure.
SelfDoc(d) ==
    /\ d.xml_title = d.latex_title
    /\ d.xml_authors = d.latex_authors
    /\ d.xml_abstract_len = d.latex_abstract_len
    /\ d.xml_sections = d.latex_sections \o d.latex_subsections
    /\ d.xml_equations = d.latex_equations
    /\ d.equation_placeholders = 0
    /\ d.xml_citations = d.latex_citations
    /\ d.unconverted_citations = 0
    /\ d.xml_references = d.latex_references
    /\ d.xml_tables = d.latex_tables
    /\ Len(d.xml_figures) = d.latex_figures
    /\ \A i \in 1..Len(d.xml_figures) : d.xml_figures[i] = "ok"

SelfLx(m) ==
    /\ m.readable
    /\ m.xml_title = m.latex_title
    /\ m.xml_authors = m.latex_authors
    /\ m.xml_abstract = m.latex_abstract
    /\ m.xml_sections = m.latex_sections
    /\ m.xml_figures = m.latex_figures
    /\ m.xml_tables = m.latex_tables
    /\ m.xml_bibitems = m.latex_bibitems

FirstReport == tool = "review" /\ report.done /\ report.call = 1
Scored == tool = "convert" /\ quality_score # NoScore

\* C1: scoring a document against itself yields an overall score of 100 and
\* no issue, whatever the facet counts are (zero counts included), in the
\* reviewer and in the converter's assessment.
C1_SelfScoreIs100 ==
    /\ (FirstReport /\ SelfDoc(doc)) =>
           (CompletionIs(report.total_score, 100) /\ report.issues = <<>>)
    /\ (Scored /\ SelfLx(lx)) => quality_score = 1000

\* C2: every component score is a ratio in [0,1] of its maximum and the
\* overall score lies in [0,100], for every pair of source and target.
C2_ScoresInRange ==
    /\ (tool = "review" /\ report.done) =>
           /\ report.metadata_score \in 0..30
           /\ report.structure_score \in 0..10
           /\ report.math_score \in 0..10
           /\ report.ref_score \in 0..10
           /\ report.table_fig_score \in 0..10
           /\ CompletionAtLeast(report.total_score, 0)
           /\ CompletionAtMost(report.total_score, 100)
    /\ Scored =>
           /\ quality_score \in 0..1000
           /\ \A k \in DOMAIN LxComponents(lx) :
                  LxComponents(lx)[k] \in 0..(10 * Scale)

\* C6: in scenario 1 (3/3 sections, 1/0 equations, 0/0 tables, 2/2
\* bibliography entries) the mathematics score is 0 and every other one is
\* full, the overall score lies strictly between the MODERATE and the
\* EXCELLENT bound, and there is exactly one CRITICAL issue.
C6_ScenarioOne ==
    /\ (FirstReport /\ doc = ScenarioDoc) =>
           /\ report.math_score = 0
           /\ report.metadata_score = 30
           /\ report.structure_score = 10
           /\ report.ref_score = 10
           /\ report.table_fig_score = 10
           /\ ~CompletionAtMost(report.total_score, ModerateMin)
           /\ ~CompletionAtLeast(report.total_score, ExcellentMin)
           /\ report.critical_count = 1
           /\ report.issues[1].facet = "mathematics"
    /\ (Scored /\ lx = LxScenario) =>
           (quality_score > ModerateMin * 10 /\ quality_score < ExcellentMin * 10)

\* C7: a later call on the same reviewer object reports the same scores and
\* the same issue list as the call before it.
C7_RepeatedCallsAgree ==
    [][(report.done /\ report'.done) =>
          (/\ report'.total_score = report.total_score
           /\ report'.issues = report.issues
           /\ report'.critical_count = report.critical_count
           /\ report'.major_count = report.major_count
           /\ report'.minor_count = report.minor_count)]_vars

\* The tier of a reviewer score in tenths: 85, 70 and 50 percent of the
\* maximum 6.0 are 5.1, 4.2 and 3.0.
ReviewerTier(total) ==
    CASE total >= 51 -> "EXCELLENT"
      [] total < 51 /\ total >= 42 -> "GOOD"
      [] total < 42 /\ total >= 30 -> "MODERATE"
      [] OTHER -> "POOR"

\* The rating of a converter score in tenths of a percent.
ConverterRating(score) ==
    CASE score >= 900 -> "EXCELLENT"
      [] score < 900 /\ score >= 800 -> "GOOD"
      [] score < 800 /\ score >= 700 -> "FAIR"
      [] OTHER -> "POOR"

HasIssue(sev, kind) ==
    \E i \in 1..Len(issues[sev]) : issues[sev][i].kind = kind

Analyzed == tool = "review" /\ report.done

\* C9 (as amended): a facet with a zero target count and a nonzero source
\* count gets a CRITICAL issue for authors, sections, bibliography entries,
\* tables and figures; for equations unless the target holds as many
\* [EQUATION] placeholders as the source has equations, and for citations
\* unless raw \cite commands remain in the target: these two cases are MAJOR.
C9_ZeroTargetIsCritical ==
    Analyzed =>
        /\ (doc.xml_authors = 0 /\ doc.latex_authors > 0) =>
               HasIssue("Critical", "Authors missing in XML")
        /\ (Len(doc.xml_sections) = 0
            /\ Len(doc.latex_sections) + Len(doc.latex_subsections) > 0) =>
               HasIssue("Critical", "No sections found in XML")
        /\ (doc.xml_references = 0 /\ doc.latex_references > 0) =>
               HasIssue("Critical", "Bibliography missing")
        /\ (doc.xml_tables = 0 /\ doc.latex_tables > 0) =>
               HasIssue("Critical", "Tables missing")
        /\ (Len(doc.xml_figures) = 0 /\ doc.latex_figures > 0) =>
               HasIssue("Critical", "Figures missing")
        /\ (doc.xml_equations = 0 /\ doc.latex_equations > 0) =>
               IF doc.equation_placeholders = doc.latex_equations
               THEN /\ HasIssue("Major", "Equations converted to placeholders")
                    /\ ~HasIssue("Critical", "Equation conversion failed")
               ELSE HasIssue("Critical", "Equation conversion failed")
        /\ (doc.xml_citations = 0 /\ doc.latex_citations > 0) =>
               IF doc.unconverted_citations > 0
               THEN /\ HasIssue("Major", "Citations not converted")
                    /\ ~HasIssue("Critical", "All citations missing")
               ELSE HasIssue("Critical", "All citations missing")

C9_Witness ==
    /\ Analyzed
    /\ doc.xml_equations = 0 /\ doc.latex_equations > 0
    /\ doc.equation_placeholders = doc.latex_equations
    /\ doc.xml_citations = 0 /\ doc.latex_citations > 0
    /\ doc.unconverted_citations > 0
    /\ doc.xml_tables = 0 /\ doc.latex_tables > 0
    /\ HasIssue("Critical", "Tables missing")

\* C9 (as stated): every facet with a zero target count and a nonzero source
\* count gets a CRITICAL issue.
C9_EveryZeroTargetCritical ==
    Analyzed =>
        /\ (doc.xml_authors = 0 /\ doc.latex_authors > 0) =>
               HasIssue("Critical", "Authors missing in XML")
        /\ (Len(doc.xml_sections) = 0
            /\ Len(doc.latex_sections) + Len(doc.latex_subsections) > 0) =>
               HasIssue("Critical", "No sections found in XML")
        /\ (doc.xml_equations = 0 /\ doc.latex_equations > 0) =>
               HasIssue("Critical", "Equation conversion failed")
        /\ (doc.xml_citations = 0 /\ doc.latex_citations > 0) =>
               HasIssue("Critical", "All citations missing")
        /\ (doc.xml_references = 0 /\ doc.latex_references > 0) =>
               HasIssue("Critical", "Bibliography missing")
        /\ (doc.xml_tables = 0 /\ doc.latex_tables > 0) =>
               HasIssue("Critical", "Tables missing")
        /\ (Len(doc.xml_figures) = 0 /\ doc.latex_figures > 0) =>
               HasIssue("Critical", "Figures missing")

SevRank(i) ==
    CASE i.sev = "Critical" -> 1 [] i.sev = "Major" -> 2 [] OTHER -> 3

FacetRank(i) ==
    CASE i.facet = "metadata" -> 1
      [] i.facet = "structure" -> 2
      [] i.facet = "mathematics" -> 3
      [] i.facet = "references" -> 4
      [] OTHER -> 5

Ordered(list) ==
    \A i, j \in 1..Len(list) :
        i < j => \/ SevRank(list[i]) < SevRank(list[j])
                 \/ /\ SevRank(list[i]) = SevRank(list[j])
                    /\ FacetRank(list[i]) <= FacetRank(list[j])

\* C10: the issues of a report come grouped by severity (CRITICAL, MAJOR,
\* MINOR) and, within a severity, in facet declaration order, and the first
\* report of a second run on the same inputs lists the same sequence as the
\* first report of the run before, 'Missing section' issues included.
C10_IssueOrderDeterministic ==
    /\ FirstReport => Ordered(report.issues)
    /\ (FirstReport /\ prev.done /\ prev.call = 1) => report.issues = prev.issues


(***************************************************************************)
(* Citation claims, checked under SpecCite.                                *)
(***************************************************************************)
EarlyDone == tool = "early" /\ out.done

Untagged(text) ==
    IF Len(text) > 0 /\ text[1].k = "tag" THEN Tail(text) ELSE text

Counted(b, i) == b[i].key # NoKey /\ Untagged(b[i].text) # TextEmpty

Base(b, i) == extract_author_year_regex(Untagged(b[i].text))

DistinctKeys(b) ==
    \A i, j \in 1..Len(b) : (i # j /\ b[i].key # NoKey) => b[i].key # b[j].key

Earlier(b, i) ==
    Cardinality({j \in 1..(i - 1) : Counted(b, j) /\ Base(b, j) = Base(b, i)})

SuffixLetter(n) == IF n = 0 THEN <<>> ELSE <<Letters[n]>>

\* C3: among the bibliography entries that produce the same surname+year
\* base key, the first in encounter order keeps the bare key and the n-th
\* following one receives the n-th letter of the alphabet: X2020, X2020a,
\* X2020b.
C3_SuffixesFromA ==
    (EarlyDone /\ DistinctKeys(bib)) =>
        \A i \in 1..Len(bib) :
            Counted(bib, i) =>
                out.map[bib[i].key] = Base(bib, i) \o SuffixLetter(Earlier(bib, i))

NonEmpty(keys) == SelectSeq(keys, LAMBDA k : k # <<>>)

Resolved(keys, map) == [i \in 1..Len(keys) |-> Lookup(map, keys[i])]

NoDup(s) == \A i, j \in 1..Len(s) : s[i] = s[j] => i = j

RECURSIVE Distinct(_)
Distinct(s) ==
    IF Len(s) = 0 THEN <<>>
    ELSE LET d == Distinct(SubSeq(s, 1, Len(s) - 1))
         IN  IF s[Len(s)] \in Range(d) THEN d ELSE Append(d, s[Len(s)])

RefKeys(citations) == [i \in 1..Len(citations) |-> citations[i].ref_key]

RepeatedKeys == <<<<"a">>, <<"b">>, <<"a">>>>

RawOrResolved(refs, items) ==
    [i \in 1..Len(refs) |->
        IF ItemOf(items, refs[i], 1) # 0
        THEN items[ItemOf(items, refs[i], 1)].key
        ELSE <<refs[i]>>]

\* C5: a rewritten citation is the bracketed, comma-joined list of the
\* resolved key of every key it cites, or of the raw key where there is no
\* bibliography entry, in the original key order; no cited key is dropped.
C5_EveryKeyRendered ==
    /\ EarlyDone =>
           \A n \in 1..Len(cites) :
               ~out.cites[n].removed =>
                   out.cites[n].text = Bracketed(Resolved(NonEmpty(cites[n]), out.map))
    /\ (tool = "cognitive" /\ out.done) =>
           \A n \in 1..Len(out.parent.rewritten) :
               out.parent.rewritten[n].parts
                   = RawOrResolved(out.parent.rewritten[n].refs, bib)
    /\ (tool = "clean" /\ out.done) =>
           \A n \in 1..Len(cites) :
               /\ out.cites[n].text = Bracketed(out.cites[n].parts)
               /\ Len(out.cites[n].parts) = Len(cites[n])
               /\ \A i \in 1..Len(cites[n]) :
                      FindRef(bib, cites[n][i], 1) = 0
                          => out.cites[n].parts[i] = cites[n][i]

(***************************************************************************)
(* Properties of the extractors, checked under SpecParse.                  *)
(***************************************************************************)
Positions(c) == [i \in 1..Len(c) |-> i]

Ran(t) == tool = t /\ out.done

\* The sections of a tree and their subsections, as one sequence.
RECURSIVE AllSections(_)
AllSections(tree) ==
    IF Len(tree) = 0 THEN <<>>
    ELSE <<tree[1]>> \o tree[1].subsections \o AllSections(Tail(tree))

CommandPositions(sections) == [i \in 1..Len(sections) |-> sections[i].pos]

\* C11: a source with N top-level section commands yields exactly N
\* top-level sections, in source order, wherever the commands stand on a
\* line and whatever sub-level commands surround them.
C11_TopLevelSections ==
    (Ran("json_sections") \/ Ran("improved_sections")) =>
        CommandPositions(out.sections)
            = SelectSeq(Positions(latex_content), LAMBDA i : IsTop(latex_content, i))

Covered(sections) ==
    UNION {{sections[i].pos} \cup (sections[i].from .. sections[i].to) :
               i \in 1..Len(sections)}

SecPositions(c) == {i \in 1..Len(c) : IsSec(c, i)}

FirstSec(c) == CHOOSE i \in SecPositions(c) : \A j \in SecPositions(c) : i <= j

LastSec(c) == CHOOSE i \in SecPositions(c) : \A j \in SecPositions(c) : j <= i

\* C12: the commands and the stored contents of the extracted sections and
\* of their children together cover all the source from the first
\* section-like command to the end of the sections: no command and no text
\* between two commands is dropped.
C12_NothingLost ==
    ((Ran("json_sections") \/ Ran("hybrid_sections"))
     /\ SecPositions(latex_content) # {}) =>
        Covered(AllSections(out.sections))
            = FirstSec(latex_content)
              .. LastEnd(latex_content, LastSec(latex_content) + 1)

DistinctIds(items) ==
    \A i, j \in 1..Len(items) : i # j => items[i].id # items[j].id

\* C13: in every extracted document all section ids are pairwise distinct,
\* and all citation ids are pairwise distinct, also for sections with equal
\* titles and citations with several keys.
C13_IdsDistinct ==
    /\ (Ran("json_sections") \/ Ran("rules_sections")) =>
           DistinctIds(AllSections(out.sections))
    /\ Ran("hybrid") => DistinctIds(out.citations)

\* The start of the line position i stands on.
LineStartOf(c, i) == CHOOSE j \in 1..i : LineStart(c, j) /\ \A m \in (j + 1)..i : ~LineStart(c, m)

\* The position at which the content that begins after pos stops: the first
\* position from pos + 1 on whose kind is in K, or else fallback.
StopAt(c, pos, K, fallback) ==
    IF FirstFrom(c, pos + 1, K) # 0 THEN FirstFrom(c, pos + 1, K) ELSE fallback

C14_AlwaysReports ==
    /\ (tool = "review" /\ calls > 0) =>
           /\ report.done
           /\ report.total_score \in Nat
           /\ Len(report.issues)
                  <= report.critical_count + report.major_count + report.minor_count
    /\ (tool = "convert" /\ quality_score # NoScore) =>
           quality_score \in 0..1000

\* The report of the empty source scored against the empty target.
C14_Witness ==
    /\ tool = "review"
    /\ doc = EmptyDoc
    /\ calls > 0
    /\ report.done
    /\ report.critical_count > 0

\* The pairs of counts _assess_quality takes a ratio of: target, source.
CountPairs(m) ==
    {<<m.xml_authors, m.latex_authors>>, <<m.xml_sections, m.latex_sections>>,
     <<m.xml_bibitems, m.latex_bibitems>>, <<m.xml_tables, m.latex_tables>>,
     <<m.xml_figures, m.latex_figures>>}

Assessed == tool = "convert" /\ quality_score # NoScore /\ lx.readable

\* C18: for every pair of counts the match ratio is min(target, source) /
\* max(source, 1); in particular it is 0 whenever the source count is 0.
C18_RatioIsMinOverMax ==
    Assessed =>
        \A p \in CountPairs(lx) :
            safe_ratio(p[1], p[2]) * Max(p[2], 1) = Scale * Min(p[1], p[2])

(***************************************************************************)
(* Properties of the block extractors, checked under SpecParse.            *)
(***************************************************************************)
\* The environment names a block extractor looks for.
Looked(t) ==
    CASE t = "rules_tables" -> {"table"}
      [] t = "json_equations" -> {"equation"}
      [] OTHER -> {"equation", "align"}

BlocksRan == tool \in BlockTools /\ out.done

\* The next begin or end of env after position i, or 0.
RECURSIVE NextOfEnv(_, _, _)
NextOfEnv(c, i, env) ==
    IF i + 1 > Len(c) THEN 0
    ELSE IF c[i + 1] \in {Begin(env), End(env)} THEN i + 1
    ELSE NextOfEnv(c, i + 1, env)

\* A begin whose environment is never ended: no end of it follows before
\* the next begin of the same environment or the end of input.
Unterminated(c, i, env) ==
    /\ c[i] = Begin(env)
    /\ NextOfEnv(c, i, env) = 0 \/ c[NextOfEnv(c, i, env)] = Begin(env)

WellFormed(c, i, env) ==
    /\ c[i] = Begin(env)
    /\ NextOfEnv(c, i, env) # 0
    /\ c[NextOfEnv(c, i, env)] = End(env)

Extracted(i, content) ==
    \E n \in 1..Len(out.blocks) :
        out.blocks[n].pos = i /\ out.blocks[n].content = content

\* C15: an environment whose end marker is missing is closed at the end of
\* input and extracted as a block, and every well-formed block is extracted
\* with its own content: an unterminated environment neither disappears nor
\* swallows a later block.
C15_UnterminatedClosedAtEnd ==
    BlocksRan =>
        \A env \in Looked(tool) :
            \A i \in 1..Len(latex_content) :
                /\ Unterminated(latex_content, i, env) =>
                       \E n \in 1..Len(out.blocks) : out.blocks[n].pos = i
                /\ WellFormed(latex_content, i, env) =>
                       Extracted(i, SubSeq(latex_content, i + 1,
                                           NextOfEnv(latex_content, i, env) - 1))

\* C20: the blocks of one kind are numbered 1, 2, 3, ... in the order of
\* their first appearance: a block that starts earlier has the smaller
\* number, whichever environment name it uses.
C20_NumberedInOrder ==
    BlocksRan =>
        /\ \A n \in 1..Len(out.blocks) : out.blocks[n].n = n
        /\ \A m, n \in 1..Len(out.blocks) :
               out.blocks[m].pos < out.blocks[n].pos => out.blocks[m].n < out.blocks[n].n

(***************************************************************************)
(* Properties of the reference fixers, checked under SpecParse.            *)
(***************************************************************************)
RefsRan == tool \in RefTools /\ out.done

\* C16: every cross-reference whose label is not in the label map is
\* rendered as the bracketed raw label: none is left as the raw command and
\* none is removed from the text.
C16_UnresolvedBracketed ==
    RefsRan =>
        \A i \in 1..Len(latex_content) :
            (IsRef(latex_content, i) /\ ~Known(latex_content, i, label_mapping))
                => out.text[i] = BracketedLabel(latex_content[i].label)

(***************************************************************************)
(* Properties of the metadata extractors, checked under SpecParse.         *)
(***************************************************************************)
MetaRan == tool \in MetaTools /\ out.done

LastValue(kind) == FindallLast(latex_content, kind, <<>>)
Declared(kind) == LastDecl(latex_content, Len(latex_content), kind) # 0

\* What the tool reports of a declaration of value v: the reviewer reports
\* the number of authors and the length of the abstract, the converters the
\* value itself.
Reported(kind, v) ==
    IF tool = "review_metadata" /\ kind \in {"author", "abstract"} THEN Len(v) ELSE v

\* C17: when the input holds several title (or author, or abstract)
\* declarations, the extracted value is that of the last declaration.
C17_LastDeclarationWins ==
    MetaRan =>
        /\ Declared("title") => out.title = Reported("title", LastValue("title"))
        /\ Declared("author") => out.authors = Reported("author", LastValue("author"))
        /\ Declared("abstract") =>
               out.abstract = Reported("abstract", LastValue("abstract"))

(***************************************************************************)
(* The two output modes of the reviewer, checked under Spec.               *)
(***************************************************************************)
\* What analyze_all reports when it is the first call on the reviewer.
TextMode == TextReport(Analysis(doc, order),
                       IssuesAfter(NoIssues, Analysis(doc, order)), 1)

\* The --json run of the program: output_json without a call of analyze_all.
JsonMode == tool = "review" /\ json.done /\ calls = 0

\* C27: for the same source and target the machine-readable report
\* (analyze_all_data, then output_json) carries the same overall score, the
\* same quality tier and the same issues as the text-mode analysis computes.
C27_JsonAgreesWithText ==
    JsonMode =>
        /\ json.total_score = TextMode.total_score
        /\ json.quality = TextMode.quality
        /\ json.critical_count = TextMode.critical_count
        /\ json.major_count = TextMode.major_count
        /\ json.minor_count = TextMode.minor_count
        /\ Range(json.issues)
               = Range(IssuesAfter(NoIssues, Analysis(doc, order)).Critical)
                 \cup Range(IssuesAfter(NoIssues, Analysis(doc, order)).Major)
                 \cup Range(IssuesAfter(NoIssues, Analysis(doc, order)).Minor)

(***************************************************************************)
(* The display keys of _process_citations_early, checked under SpecCite.   *)
(***************************************************************************)
\* C24: the map from bibliography keys to display keys built by
\* _process_citations_early is injective: two bibliography entries with
\* different keys never receive the same display key.
C24_DisplayKeysInjective ==
    EarlyDone =>
        \A k1, k2 \in DOMAIN out.map :
            k1 # k2 => out.map[k1] # out.map[k2]

(***************************************************************************)
(* The place of a rewritten citation, checked under SpecCite.              *)
(***************************************************************************)
CognitiveDone == tool = "cognitive" /\ out.done /\ ~out.parent.error

\* What a child contributes to the text of its parent, read in document
\* order: a citation that is rewritten its rendered text, any other element
\* a mark for the element itself; then the text that follows it.
RenderedKid(kid, items) ==
    (IF kid.tag = "cite" /\ Len(kid.refs) > 0
                         /\ Len(NewCitations(kid.refs, items, 1)) > 0
     THEN Bracketed(NewCitations(kid.refs, items, 1))
     ELSE IF kid.tag = "cite" /\ Len(kid.refs) = 0
                              /\ Len(Matching(items, kid.text)) > 0
     THEN ReplaceKey(kid.text, Matching(items, kid.text)[1].id,
                     Matching(items, kid.text)[1].key)
     ELSE <<"<", kid.tag, ">">>) \o kid.tail

RECURSIVE InDocumentOrder(_, _, _)
InDocumentOrder(kids, items, i) ==
    IF i > Len(kids) THEN <<>>
    ELSE RenderedKid(kids[i], items) \o InDocumentOrder(kids, items, i + 1)

RECURSIVE ElementsInOrder(_, _)
ElementsInOrder(kids, i) ==
    IF i > Len(kids) THEN <<>>
    ELSE <<"<", kids[i].tag, ">">> \o kids[i].tail \o ElementsInOrder(kids, i + 1)

\* C29: a rendered citation stands exactly where its cite element stood:
\* the text runs and the other children of the parent keep their relative
\* order and no text run is lost, also when an element that is not a
\* citation precedes the citation in the same parent.
C29_CitationStaysInPlace ==
    CognitiveDone =>
        out.parent.text \o ElementsInOrder(out.parent.kids, 1)
            = cites.text \o InDocumentOrder(cites.kids, bib, 1)

(***************************************************************************)
(* The frame of citation resolution, checked under SpecCite.               *)
(***************************************************************************)
\* The ids and keys of the bibliography entries, in their order.
IdsAndKeys(b) == [i \in 1..Len(b) |-> IF "id" \in DOMAIN b[i]
                                      THEN <<b[i].id, b[i].key>>
                                      ELSE <<b[i].key>>]

\* C21: citation resolution changes only the text of citation markers and
\* cross-references: after the pass the bibliography holds the same entries
\* in the same order with the same ids and keys as before.
C21_BibliographyKept ==
    [][(ProcessCitationsEarly \/ RebuildBibliography)
           => IdsAndKeys(bib') = IdsAndKeys(bib)]_vars

(***************************************************************************)
(* The splitting of an author block, checked under SpecParse.              *)
(***************************************************************************)
AuthorsRan == tool \in AuthorTools /\ out.done

\* Every separator of the block stands between two authors: each piece
\* between separators holds a name.
SeparatorsBetweenAuthors(c) ==
    \A i \in 1..Len(SplitAt(c, "and", <<>>)) :
        Count(SplitAt(c, "and", <<>>)[i], "name") > 0

\* C22: authors are split only at the author-separator commands: a block
\* with k separators yields k + 1 authors, and a block without a separator
\* counts as exactly one author whatever commas it holds.
C22_SplitOnlyAtSeparators ==
    (AuthorsRan /\ SeparatorsBetweenAuthors(latex_content)) =>
        out.authors = Count(latex_content, "and") + 1

(***************************************************************************)
(* Comment stripping, checked under SpecParse.                             *)
(***************************************************************************)
CommentsRan == tool \in CommentTools /\ out.done

\* The first comment marker of the line that the escape marker does not
\* precede, or 0.
RECURSIVE FirstUnescaped(_, _)
FirstUnescaped(line, i) ==
    IF i > Len(line) THEN 0
    ELSE IF line[i] = Percent /\ (i = 1 \/ line[i - 1] # Backslash) THEN i
    ELSE FirstUnescaped(line, i + 1)

StrippedLine(line) ==
    IF FirstUnescaped(line, 1) = 0 THEN line
    ELSE SubSeq(line, 1, FirstUnescaped(line, 1) - 1)

\* The lines of a text without their trailing blanks.
Trimmed(text) ==
    [n \in 1..Len(SplitLines(text, <<>>)) |-> rstrip(SplitLines(text, <<>>)[n])]

\* C23: on each line comment stripping removes the text from the first
\* comment marker that the escape marker does not precede to the end of the
\* line, and leaves every escaped marker in the output; a line with only
\* escaped markers is unchanged.  (Blanks at the end of a line are not
\* compared.)
C23_EscapedMarkersKept ==
    CommentsRan =>
        Trimmed(out.text)
            = [n \in 1..Len(SplitLines(latex_content, <<>>)) |->
                  rstrip(StrippedLine(SplitLines(latex_content, <<>>)[n]))]

(***************************************************************************)
(* Properties of the conversion runs, checked under SpecRun.               *)
(***************************************************************************)
\* C25: convert_latex_to_xml returns an output path only if the XML file at
\* that path passes _validate_xml after the last CLI invocation of the
\* call; otherwise, after at most max_attempts invocations, it raises.
C25_ReturnsOnlyValidated ==
    tool = "q_convert" =>
        /\ proc.pc = "returned" => validate_xml(proc.file) = "None"
        /\ proc.pc = "raised" => proc.invocations = max_attempts
        /\ proc.invocations <= max_attempts

CognitiveReturned == tool = "cognitive_monitor" /\ proc.pc = "done"

\* The assessed iteration with the highest score, the earliest one on ties.
BestAssessed(assessed) ==
    assessed[CHOOSE i \in 1..Len(assessed) :
                 \A j \in 1..Len(assessed) :
                     \/ assessed[j].score < assessed[i].score
                     \/ assessed[j].score = assessed[i].score /\ i <= j].iteration

\* C26: convert_with_monitoring returns True whenever at least one
\* iteration's CLI run succeeded and created its output file, and the file
\* copied to the output path is then the iteration file with the highest
\* assessed score (the earliest on ties), also when the assessment gives 0
\* for every iteration.
C26_SuccessfulRunReturnsTrue ==
    (CognitiveReturned /\ Len(proc.assessed) > 0) =>
        /\ proc.result
        /\ proc.output = BestAssessed(proc.assessed)

\* C28: in convert_to_xml the quality assessment of the output file takes
\* place after the XML assembled in the same call has been written to it:
\* the file assessed is the current run's output, never a missing or an
\* earlier file.
C28_AssessedAfterWrite ==
    (tool = "hybrid_convert" /\ proc.pc = "done") => proc.assessed = "current"

Called == tool = "bedrock" /\ proc.n > 0

\* C30: the response cache of call_llm is consistent over any sequence of
\* calls: a text taken from the cache is one the service returned for
\* exactly the request of the call; a call whose record can be read does not
\* invoke the service; a failed call stores nothing; and a record that
\* cannot be read leads to a call of the service.
C30_CacheConsistent ==
    Called =>
        /\ proc.last.source = "cache" =>
               [request |-> proc.last.request, text |-> proc.last.result] \in proc.served
        /\ Readable(proc.last.before, cache_key(proc.last.client, proc.last.request),
                    proc.last.client) => proc.last.source = "cache"
        /\ proc.last.result = "None" => proc.cache = proc.last.before
        /\ proc.last.source \in {"cache", "service"}

====
